---------------------------- MODULE Spec2Model ----------------------------
(***************************************************************************)
(* Model of the candidate/vacancy matching engine of src/matching.py.      *)
(*                                                                         *)
(* Python values are tagged records: None, str (a TLA+ string), list (a    *)
(* sequence of values); a dict is a TLA+ function from keys to values.     *)
(* A float score x is the integer x * Scale (ten-thousandths), so that a   *)
(* value that was not rounded to two decimals is visible as one that is    *)
(* not a multiple of Scale / 100.                                          *)
(***************************************************************************)
EXTENDS Integers, Sequences, FiniteSets, TLC

-----------------------------------------------------------------------------
(* Bounds of the model                                                     *)

\* longest skill list passed to the two scorers
MaxSkills == 2
\* longest candidate list of match_vacante_with_alumnos
MaxAlumnos == 3
\* longest application list of match_vacante_with_postulantes
MaxPostulaciones == 2
\* host threads that call get_embedding_model concurrently
MaxThreads == 3
\* host requests that use the document store concurrently
MaxRequests == 3

-----------------------------------------------------------------------------
(* Python values                                                           *)

None == [t |-> "none"]
Str(s) == [t |-> "str", v |-> s]
List(l) == [t |-> "list", v |-> l]
Dict(d) == [t |-> "dict", v |-> d]
Float(x) == [t |-> "float", v |-> x]
PyInt(n) == [t |-> "int", v |-> n]
\* an object with an attribute id (a document reference)
Ref(id) == [t |-> "ref", id |-> id]
\* what a call leaves when an exception propagates to its caller
Raise(exc) == [t |-> "raise", v |-> exc]

isinstance_str(x) == x.t = "str"

\* Python truth value of x ("not x" is ~Truthy(x))
Truthy(x) ==
    CASE x.t = "none" -> FALSE
      [] x.t = "str"  -> x.v # ""
      [] x.t = "list" -> Len(x.v) > 0
      [] x.t = "dict" -> DOMAIN x.v # {}
      [] x.t = "int"  -> x.v # 0
      [] OTHER        -> TRUE

len(x) == Len(x.v)

\* len(x) is defined: x is a sized object
has_len(x) == x.t \in {"str", "list", "dict"}

\* the test "not x or len(x) == 0" raises TypeError: x is truthy and unsized
sized_test_raises(x) == Truthy(x) /\ ~has_len(x)

\* x.get(key) raises AttributeError: x is no dict
get_raises(x) == x.t # "dict"

\* d.get(key, default) for a dict d
Get(d, key, default) == IF key \in DOMAIN d.v THEN d.v[key] ELSE default

Range(s) == {s[i] : i \in 1..Len(s)}

-----------------------------------------------------------------------------
(* Inputs of the calls                                                     *)

SeqsUpTo(S, n) == UNION {[1..k -> S] : k \in 0..n}

\* a key the record does not have
Absent == [t |-> "absent"]

\* the dict with the fields that are not Absent
Record(fields) ==
    Dict([k \in {f \in DOMAIN fields : fields[f] # Absent} |-> fields[k]])

\* the labels the embedding model is asked to encode in this model
SoftTexts == {"Liderazgo", "Trabajo en equipo"}

HardLabels == {Str("SQL"), Str("Git"), Str("APIs de sql"), Str("de"), PyInt(5)}
SoftLabels == {Str(t) : t \in SoftTexts}

HardSkillSets == {None} \cup {List(q) : q \in SeqsUpTo(HardLabels, MaxSkills)}
SoftSkillSets == {None} \cup {List(q) : q \in SeqsUpTo(SoftLabels, MaxSkills)}

VacanteHard ==
    {Absent, None, List(<<>>), List(<<Str("SQL")>>),
     List(<<Str("SQL"), Str("Git")>>), List(<<Str("de")>>)}
VacanteSoft ==
    {Absent, None, List(<<>>), List(<<Str("Liderazgo")>>),
     List(<<Str("Liderazgo"), Str("Trabajo en equipo")>>)}
Vacantes ==
    {Record([habilidadesDuras |-> h, habilidadesBlandas |-> b]) :
        h \in VacanteHard, b \in VacanteSoft}

\* comma-delimited skill strings of candidate records
AlumnoHardStrings ==
    {"", " , ,", "sql", " sql , Git,, ", "APIs de SQL", "APIs de SQL, git, java"}
AlumnoSoftStrings == {"Liderazgo", "Trabajo en equipo, Liderazgo"}

AlumnoHard ==
    {Absent, None, List(<<Str("sql"), Str("Git")>>)}
        \cup {Str(s) : s \in AlumnoHardStrings}
AlumnoSoft ==
    {Absent, None, List(<<Str("Trabajo en equipo")>>)}
        \cup {Str(s) : s \in AlumnoSoftStrings}
Alumnos ==
    {Record([habilidades_tecnicas |-> h, habilidades_blandas |-> b]) :
        h \in AlumnoHard, b \in AlumnoSoft}

\* arguments of preprocess_text: texts, and values that are no text
PreprocessTexts ==
    {None, PyInt(5), PyInt(0), List(<<Str("sql")>>), Str("")}
        \cup {l \in HardLabels : isinstance_str(l)}
        \cup {Str(s) : s \in AlumnoHardStrings}
        \cup {Str("..."), Str("SQL ... Git"), Str("--"), Str("(sql)"),
              Str("APIs y apis")}

\* postings and candidates of other shapes: a null record, a skill field
\* that is a number, a skill list with a label that is a number, a posting
\* whose skills are a comma-delimited string, a candidate whose list has an
\* untrimmed and an empty label
OtherVacantes ==
    {None,
     Record([habilidadesDuras |-> List(<<Str("SQL")>>), habilidadesBlandas |-> PyInt(5)]),
     Record([habilidadesDuras |-> PyInt(5), habilidadesBlandas |-> Absent]),
     Record([habilidadesDuras |-> List(<<PyInt(5), Str("SQL")>>),
             habilidadesBlandas |-> Absent]),
     Record([habilidadesDuras |-> Str("SQL, Git"), habilidadesBlandas |-> Absent])}
OtherAlumnos ==
    {None,
     Record([habilidades_tecnicas |-> PyInt(5), habilidades_blandas |-> Absent]),
     Record([habilidades_tecnicas |-> PyInt(0), habilidades_blandas |-> PyInt(5)]),
     Record([habilidades_tecnicas |-> List(<<PyInt(5), Str("sql")>>),
             habilidades_blandas |-> None]),
     Record([habilidades_tecnicas |-> List(<<Str(" sql "), Str("")>>),
             habilidades_blandas |-> Absent])}

\* the postings of the batch calls: without and with a soft requirement
BatchVacantes ==
    {Record([habilidadesDuras |-> List(<<Str("SQL"), Str("Git")>>),
             habilidadesBlandas |-> Absent]),
     Record([habilidadesDuras |-> List(<<Str("SQL")>>),
             habilidadesBlandas |-> List(<<Str("Liderazgo")>>)])}

\* the candidate records of the batch calls, by kind; doc_id is Absent for
\* a candidate without identifier
BatchAlumno(kind, doc_id) ==
    CASE kind = "A" ->
            Record([doc_id |-> doc_id,
                    nombre |-> Str("Ana"),
                    correo |-> Str("ana@unrc.mx"),
                    habilidades_tecnicas |-> Str(" sql , Git,, "),
                    habilidades_blandas |-> Str("Liderazgo")])
      [] kind = "B" ->
            Record([doc_id |-> doc_id,
                    nombre |-> None,
                    correo |-> Absent,
                    habilidades_tecnicas |-> Str("APIs de SQL"),
                    habilidades_blandas |-> List(<<Str("Trabajo en equipo")>>)])
      [] kind = "C" ->
            Record([doc_id |-> doc_id,
                    nombre |-> Str("Carla"),
                    habilidades_tecnicas |-> PyInt(5)])
      [] kind = "empty" -> Record([doc_id |-> doc_id])

AlumnoId(i) == "a" \o ToString(i)

\* the candidate at position i of a list: of kind A or B with the identifier
\* of the position, or of kind A without identifier
AlumnoAt(i, choice) ==
    IF choice = "noid" THEN BatchAlumno("A", Absent)
    ELSE BatchAlumno(choice, Str(AlumnoId(i)))

AlumnosLists ==
    UNION {{[i \in 1..n |-> AlumnoAt(i, choices[i])] :
               choices \in [1..n -> {"A", "B", "C", "noid"}]} : n \in 0..MaxAlumnos}

\* applications: a direct identifier, a reference object, an identifier
\* that no mapping holds, and no candidate reference
Postulaciones ==
    {Record([alumnoID |-> Str("a1")]), Record([alumnoID |-> Ref("a1")]),
     Record([alumnoID |-> Ref("a2")]), Record([alumnoID |-> Str("a9")]),
     Record([alumnoID |-> Absent])}

PostulacionesLists == SeqsUpTo(Postulaciones, MaxPostulaciones)

\* candidate mappings: two candidates, and one whose second record is empty
AlumnosDicts ==
    {[id \in {"a1", "a2"} |->
         IF id = "a1" THEN BatchAlumno("A", Str("a1")) ELSE BatchAlumno("B", Str("a2"))],
     [id \in {"a1", "a2"} |->
         IF id = "a1" THEN BatchAlumno("B", Str("a1")) ELSE BatchAlumno("empty", Absent)]}

-----------------------------------------------------------------------------
(* Numbers                                                                 *)

\* integer units per 1.0
Scale == 100 * 100
\* the float 10.0 (return 10.0)
PERFECT == 10 * Scale
\* the float 0.0 (return 0.0)
ZERO == 0 * Scale

\* a variant of round2 that keeps a third decimal (round(x, 3), truncating)
round3(num, den) == ((1000 * num) \div den) * (Scale \div 1000)

\* round(num / den, 2) for den > 0: the nearest hundredth, ties to even
round2(num, den) ==
    LET n100 == 100 * num
        q    == n100 \div den
        r    == n100 % den
        h    == IF 2 * r > den THEN q + 1
                ELSE IF 2 * r < den THEN q
                ELSE IF q % 2 = 0 THEN q ELSE q + 1
    IN  h * (Scale \div 100)

-----------------------------------------------------------------------------
(* Text: str.lower, nltk.word_tokenize, string.punctuation, stopwords,     *)
(* PorterStemmer.stem, str.split, str.strip                                *)

Char(s, i) == SubSeq(s, i, i)

UpperCase == "ABCDEFGHIJKLMNOPQRSTUVWXYZ"
LowerCase == "abcdefghijklmnopqrstuvwxyz"

\* position of character c in string s, 0 when it is not there
RECURSIVE IndexIn(_, _, _)
IndexIn(c, s, i) ==
    IF i > Len(s) THEN 0 ELSE IF Char(s, i) = c THEN i ELSE IndexIn(c, s, i + 1)

\* the lower case letter of every upper case letter
LowerOf ==
    [c \in {Char(UpperCase, i) : i \in 1..Len(UpperCase)} |->
        Char(LowerCase, IndexIn(c, UpperCase, 1))]

lower_char(c) == IF c \in DOMAIN LowerOf THEN LowerOf[c] ELSE c

RECURSIVE lower(_)
lower(s) == IF s = "" THEN "" ELSE lower_char(Head(s)) \o lower(Tail(s))

IsSpace(c) == c \in {" ", "\t"}

\* characters word_tokenize splits off as tokens of their own
TokenizerPunct ==
    {",", ";", ":", "!", "?", "(", ")", "[", "]", "{", "}", "<", ">",
     "@", "#", "$", "%", "&"}

StartsWith(s, prefix) ==
    Len(s) >= Len(prefix) /\ SubSeq(s, 1, Len(prefix)) = prefix

Flush(acc, cur) == IF cur = "" THEN acc ELSE Append(acc, cur)

RECURSIVE tokenize_from(_, _, _)
tokenize_from(s, cur, acc) ==
    IF s = "" THEN Flush(acc, cur)
    ELSE IF StartsWith(s, "...")
         THEN tokenize_from(SubSeq(s, 4, Len(s)), "", Append(Flush(acc, cur), "..."))
    ELSE IF StartsWith(s, "--")
         THEN tokenize_from(SubSeq(s, 3, Len(s)), "", Append(Flush(acc, cur), "--"))
    ELSE LET c == Head(s) IN
         IF IsSpace(c) THEN tokenize_from(Tail(s), "", Flush(acc, cur))
         ELSE IF c \in TokenizerPunct
              THEN tokenize_from(Tail(s), "", Append(Flush(acc, cur), c))
              ELSE tokenize_from(Tail(s), cur \o c, acc)

\* word_tokenize(text): words separated by white space, punctuation split
\* off; an ellipsis and a double dash are one token each
word_tokenize(s) == tokenize_from(s, "", <<>>)

\* Python's "a in b" for two strings: a is a substring of b
InStr(a, b) ==
    \E i \in 1..(Len(b) - Len(a) + 1) : SubSeq(b, i, i + Len(a) - 1) = a

\* string.punctuation, in its two parts around the backquote (a character a
\* TLA+ string cannot hold; no text of this model contains it)
punctuation_head == "!\"#$%&'()*+,-./:;<=>?@[\\]^_"
punctuation_tail == "{|}~"

\* token in string.punctuation
in_punctuation(token) ==
    InStr(token, punctuation_head) \/ InStr(token, punctuation_tail)

\* the part of stopwords.words('spanish') + stopwords.words('english') that
\* the labels of this model can meet
stop_words ==
    {"de", "en", "y", "la", "el", "con", "a", "the", "and", "of", "in",
     "i", "s", "t"}

EndsWith(w, suf) ==
    Len(w) >= Len(suf) /\ SubSeq(w, Len(w) - Len(suf) + 1, Len(w)) = suf

DropLast(w, n) == SubSeq(w, 1, Len(w) - n)

\* PorterStemmer.stem: words of at most two letters are returned as they
\* are; step 1a strips the plural (sses -> ss, ies -> i, ss -> ss, s -> "").
\* The later steps of the algorithm leave every word of this model's labels
\* unchanged.
stem(w) ==
    IF Len(w) <= 2 THEN w
    ELSE IF EndsWith(w, "sses") THEN DropLast(w, 2)
    ELSE IF EndsWith(w, "ies") THEN DropLast(w, 2)
    ELSE IF EndsWith(w, "ss") THEN w
    ELSE IF EndsWith(w, "s") THEN DropLast(w, 1)
    ELSE w

RECURSIVE filter_and_stem(_)
filter_and_stem(tokens) ==
    IF tokens = <<>> THEN <<>>
    ELSE LET token == Head(tokens) IN
         IF ~in_punctuation(token) /\ token \notin stop_words
         THEN <<stem(token)>> \o filter_and_stem(Tail(tokens))
         ELSE filter_and_stem(Tail(tokens))

\* lower, tokenize, filter and stem
tokenize_and_stem(s) == filter_and_stem(word_tokenize(lower(s)))

RECURSIVE lstrip(_)
lstrip(s) == IF s # "" /\ IsSpace(Head(s)) THEN lstrip(Tail(s)) ELSE s

RECURSIVE rstrip(_)
rstrip(s) ==
    IF s # "" /\ IsSpace(Char(s, Len(s))) THEN rstrip(DropLast(s, 1)) ELSE s

\* str.strip()
strip(s) == rstrip(lstrip(s))

RECURSIVE split_from(_, _, _)
split_from(s, cur, acc) ==
    IF s = "" THEN Append(acc, cur)
    ELSE IF Head(s) = "," THEN split_from(Tail(s), "", Append(acc, cur))
    ELSE split_from(Tail(s), cur \o Head(s), acc)

\* str.split(',')
split_comma(s) == split_from(s, "", <<>>)

RECURSIVE strip_nonempty(_)
strip_nonempty(parts) ==
    IF parts = <<>> THEN <<>>
    ELSE IF strip(Head(parts)) # ""
         THEN <<Str(strip(Head(parts)))>> \o strip_nonempty(Tail(parts))
         ELSE strip_nonempty(Tail(parts))

\* [s.strip() for s in x.split(',') if s.strip()]
split_and_strip(s) == List(strip_nonempty(split_comma(s)))

\* Evaluation tables: the values of split_and_strip and tokenize_and_stem on
\* the texts of the model's inputs, computed once.  A text outside a table
\* is computed when it is met.
split_table == [s \in AlumnoHardStrings \cup AlumnoSoftStrings |-> split_and_strip(s)]

split_skills(x) ==
    IF x.v \in DOMAIN split_table THEN split_table[x.v] ELSE split_and_strip(x.v)

KnownTexts ==
    {l.v : l \in {k \in HardLabels \cup SoftLabels : isinstance_str(k)}}
        \cup UNION {{l.v : l \in Range(split_table[s].v)} : s \in DOMAIN split_table}

stems_table == [s \in KnownTexts |-> tokenize_and_stem(s)]

stems_of(s) ==
    IF s \in DOMAIN stems_table THEN stems_table[s] ELSE tokenize_and_stem(s)


\* a variant of preprocess_text without the isinstance test: a value that
\* is no text is taken for one token
preprocess_text_any_value(text) ==
    IF ~Truthy(text) THEN <<>>
    ELSE IF ~isinstance_str(text) THEN <<"object">>
    ELSE stems_of(text.v)

\* preprocess_text(text): the list of stems of the kept tokens
preprocess_text(text) ==
    IF ~Truthy(text) \/ ~isinstance_str(text) THEN <<>>
    ELSE stems_of(text.v)

-----------------------------------------------------------------------------
(* Lexical scorer                                                          *)

\* weights of coverage and Jaccard, in tenths
W_COVERAGE == 6
W_JACCARD == 4

\* what "for skill in skills" visits: the elements of a list, the characters
\* of a string
iterate(skills) ==
    IF skills.t = "str"
    THEN [i \in 1..Len(skills.v) |-> Str(Char(skills.v, i))]
    ELSE skills.v

RECURSIVE extend_tokens(_)
\* the loop: for skill in skills: processed.extend(preprocess_text(skill))
extend_tokens(skills) ==
    IF skills = <<>> THEN <<>>
    ELSE preprocess_text(Head(skills)) \o extend_tokens(Tail(skills))

\* a variant of lexical_formula whose coverage is taken over the candidate's
\* tokens instead of the required ones
lexical_formula_over_alumno(vacante_set, alumno_set) ==
    LET intersection == Cardinality(vacante_set \cap alumno_set)
        union        == Cardinality(vacante_set \cup alumno_set)
        n_alumno     == Cardinality(alumno_set)
    IN  round2((intersection * union * W_COVERAGE
                  + intersection * n_alumno * W_JACCARD) * 10,
               n_alumno * union * 10)

\* a variant of lexical_formula whose second term is the candidate's share of
\* the union instead of the Jaccard index
lexical_formula_rewarding_breadth(vacante_set, alumno_set) ==
    LET intersection == Cardinality(vacante_set \cap alumno_set)
        union        == Cardinality(vacante_set \cup alumno_set)
        n_required   == Cardinality(vacante_set)
        n_alumno     == Cardinality(alumno_set)
    IN  IF union = 0 THEN ZERO
        ELSE round2((intersection * union * W_COVERAGE
                       + n_alumno * n_required * W_JACCARD) * 10,
                    n_required * union * 10)

\* the weighted combination of coverage and Jaccard, rounded
lexical_formula(vacante_set, alumno_set) ==
    LET intersection == Cardinality(vacante_set \cap alumno_set)
        union        == Cardinality(vacante_set \cup alumno_set)
        n_required   == Cardinality(vacante_set)
    IN  IF union = 0 THEN ZERO
        ELSE round2((intersection * union * W_COVERAGE
                       + intersection * n_required * W_JACCARD) * 10,
                    n_required * union * 10)

\* a variant of score_of_tokens that tests the candidate's tokens before the
\* required ones
score_of_tokens_alumno_first(vacante_skills, alumno_skills) ==
    LET vacante_processed == extend_tokens(iterate(vacante_skills))
        alumno_processed  == extend_tokens(iterate(alumno_skills))
    IN  IF alumno_processed = <<>> THEN ZERO
        ELSE IF vacante_processed = <<>> THEN PERFECT
        ELSE lexical_formula(Range(vacante_processed), Range(alumno_processed))

\* a variant of score_of_tokens whose coverage counts the required tokens with
\* their repetitions
score_of_tokens_with_repetitions(vacante_skills, alumno_skills) ==
    LET vacante_processed == extend_tokens(iterate(vacante_skills))
        alumno_processed  == extend_tokens(iterate(alumno_skills))
        intersection == Cardinality(Range(vacante_processed) \cap Range(alumno_processed))
        union        == Cardinality(Range(vacante_processed) \cup Range(alumno_processed))
        n_required   == Len(vacante_processed)
    IN  IF vacante_processed = <<>> THEN PERFECT
        ELSE IF alumno_processed = <<>> THEN ZERO
        ELSE round2((intersection * union * W_COVERAGE
                       + intersection * n_required * W_JACCARD) * 10,
                    n_required * union * 10)

\* the score of two non-empty skill lists: their tokens, flattened, compared
score_of_tokens(vacante_skills, alumno_skills) ==
    LET vacante_processed == extend_tokens(iterate(vacante_skills))
        alumno_processed  == extend_tokens(iterate(alumno_skills))
    IN  IF vacante_processed = <<>> THEN PERFECT
        ELSE IF alumno_processed = <<>> THEN ZERO
        ELSE lexical_formula(Range(vacante_processed), Range(alumno_processed))

\* a variant of calculate_hard_skills_score that takes either list being
\* empty for the absence of a requirement
hard_score_either_empty(vacante_skills, alumno_skills) ==
    IF \/ ~Truthy(vacante_skills) \/ len(vacante_skills) = 0
       \/ ~Truthy(alumno_skills) \/ len(alumno_skills) = 0
    THEN PERFECT
    ELSE score_of_tokens(vacante_skills, alumno_skills)

calculate_hard_skills_score(vacante_skills, alumno_skills) ==
    IF ~Truthy(vacante_skills) \/ len(vacante_skills) = 0 THEN PERFECT
    ELSE IF ~Truthy(alumno_skills) \/ len(alumno_skills) = 0 THEN ZERO
    ELSE score_of_tokens(vacante_skills, alumno_skills)

\* calculate_hard_skills_score raises: one of its two emptiness tests does
hard_raises(vacante_skills, alumno_skills) ==
    \/ sized_test_raises(vacante_skills)
    \/ /\ ~(~Truthy(vacante_skills) \/ len(vacante_skills) = 0)
       /\ sized_test_raises(alumno_skills)

-----------------------------------------------------------------------------
(* Embedding model and semantic scorer                                     *)

\* sentence embeddings: unit vectors of the plane
Vectors == {<<1, 0>>, <<0, 1>>, <<-1, 0>>}

\* The weights SentenceTransformer(name) can load: one vector per label.
\* Cosine similarity depends only on the angle between two vectors, so the
\* vector of one label is fixed.
Encoders == {e \in [SoftTexts -> Vectors] : e["Liderazgo"] = <<1, 0>>}

\* What the environment does to one attempt at semantic scoring: the
\* constructor of the model raises ("load_fail"), model.encode raises
\* ("encode_fail") or neither ("ok"); weights is what the constructor loads.
Outcomes == {"ok", "load_fail", "encode_fail"}

\* integer units per cosine similarity 1.0
SimOne == 10 * 100

\* 1 for true, 0 for false
Count(b) == IF b THEN 1 ELSE 0

\* a variant of get_embedding_model that leaves a model in the handle when
\* the constructor raises
get_embedding_model_set_on_failure(model, env) ==
    IF model = None
    THEN IF env.outcome = "load_fail"
         THEN [raised |-> TRUE, model |-> env.weights, constructed |-> FALSE]
         ELSE [raised |-> FALSE, model |-> env.weights, constructed |-> TRUE]
    ELSE [raised |-> FALSE, model |-> model, constructed |-> FALSE]

\* a variant of get_embedding_model that constructs a model on every call
get_embedding_model_always_constructs(model, env) ==
    IF env.outcome = "load_fail"
    THEN [raised |-> TRUE, model |-> model, constructed |-> FALSE]
    ELSE [raised |-> FALSE, model |-> env.weights, constructed |-> TRUE]

\* get_embedding_model(): the handle after the call, whether the constructor
\* raised and whether it returned a new instance
get_embedding_model(model, env) ==
    IF model = None
    THEN IF env.outcome = "load_fail"
         THEN [raised |-> TRUE, model |-> None, constructed |-> FALSE]
         ELSE [raised |-> FALSE, model |-> env.weights, constructed |-> TRUE]
    ELSE [raised |-> FALSE, model |-> model, constructed |-> FALSE]

\* model.encode(skills): one vector per label
encode(model, skills) == [i \in 1..Len(skills) |-> model[skills[i].v]]

\* model.encode raises: the environment fails it, or a label is no text
encode_raises(skills, env) ==
    \/ env.outcome = "encode_fail"
    \/ \E i \in 1..Len(skills) : ~isinstance_str(skills[i])

\* sklearn's cosine_similarity of two unit vectors
cosine_similarity(u, w) == (u[1] * w[1] + u[2] * w[2]) * SimOne

SetMax(S) == CHOOSE x \in S : \A y \in S : y <= x

RECURSIVE SeqSum(_)
SeqSum(q) == IF q = <<>> THEN 0 ELSE Head(q) + SeqSum(Tail(q))

\* a variant of semantic_formula that averages the similarities of all pairs
\* instead of the best match of each required label
semantic_formula_mean_of_pairs(vacante_embeddings, alumno_embeddings) ==
    LET n == Len(vacante_embeddings)
        m == Len(alumno_embeddings)
        sums ==
            [i \in 1..n |->
                SeqSum([j \in 1..m |-> cosine_similarity(vacante_embeddings[i],
                                                         alumno_embeddings[j])])]
        total == SeqSum(sums)
    IN  round2((total + SimOne * n * m) * 10, 2 * SimOne * n * m)

\* best match per required label, averaged, mapped from [-1, 1] to [0, 10]
semantic_formula(vacante_embeddings, alumno_embeddings) ==
    LET n == Len(vacante_embeddings)
        max_similarities ==
            [i \in 1..n |->
                SetMax({cosine_similarity(vacante_embeddings[i],
                                          alumno_embeddings[j]) :
                        j \in 1..Len(alumno_embeddings)})]
        total == SeqSum(max_similarities)
    IN  round2((total + SimOne * n) * 10, 2 * SimOne * n)

\* a variant of semantic_or_fallback that scores 0.0 when the model cannot be
\* loaded or encode raises
semantic_or_zero(vacante_skills, alumno_skills, model, env) ==
    LET got == get_embedding_model(model, env) IN
    IF \/ got.raised
       \/ encode_raises(vacante_skills.v, env)
       \/ encode_raises(alumno_skills.v, env)
    THEN [score |-> ZERO, model |-> got.model, touched |-> TRUE,
          constructed |-> got.constructed]
    ELSE [score   |-> semantic_formula(encode(got.model, vacante_skills.v),
                                       encode(got.model, alumno_skills.v)),
          model   |-> got.model,
          touched |-> TRUE,
          constructed |-> got.constructed]

\* a variant of semantic_or_fallback that gives the lexical score on the call
\* that loads the model
semantic_after_first_load(vacante_skills, alumno_skills, model, env) ==
    LET got == get_embedding_model(model, env) IN
    IF \/ got.raised
       \/ model = None
       \/ encode_raises(vacante_skills.v, env)
       \/ encode_raises(alumno_skills.v, env)
    THEN [score   |-> calculate_hard_skills_score(vacante_skills, alumno_skills),
          model   |-> got.model,
          touched |-> TRUE,
          constructed |-> got.constructed]
    ELSE [score   |-> semantic_formula(encode(got.model, vacante_skills.v),
                                       encode(got.model, alumno_skills.v)),
          model   |-> got.model,
          touched |-> TRUE,
          constructed |-> got.constructed]

\* a variant of semantic_or_fallback whose handler drops the loaded model
semantic_or_fallback_dropping_model(vacante_skills, alumno_skills, model, env) ==
    LET got == get_embedding_model(model, env) IN
    IF \/ got.raised
       \/ encode_raises(vacante_skills.v, env)
       \/ encode_raises(alumno_skills.v, env)
    THEN [score   |-> calculate_hard_skills_score(vacante_skills, alumno_skills),
          model   |-> None,
          touched |-> TRUE,
          constructed |-> got.constructed]
    ELSE [score   |-> semantic_formula(encode(got.model, vacante_skills.v),
                                       encode(got.model, alumno_skills.v)),
          model   |-> got.model,
          touched |-> TRUE,
          constructed |-> got.constructed]

\* the try block and its handler: the semantic score, or the lexical score
\* when the model cannot be loaded or encode raises
semantic_or_fallback(vacante_skills, alumno_skills, model, env) ==
    LET got == get_embedding_model(model, env) IN
    IF \/ got.raised
       \/ encode_raises(vacante_skills.v, env)
       \/ encode_raises(alumno_skills.v, env)
    THEN [score   |-> calculate_hard_skills_score(vacante_skills, alumno_skills),
          model   |-> got.model,
          touched |-> TRUE,
          constructed |-> got.constructed]
    ELSE [score   |-> semantic_formula(encode(got.model, vacante_skills.v),
                                       encode(got.model, alumno_skills.v)),
          model   |-> got.model,
          touched |-> TRUE,
          constructed |-> got.constructed]

\* a variant of calculate_soft_skills_score that obtains the model before it
\* looks at its arguments
soft_score_model_first(vacante_skills, alumno_skills, model, env) ==
    LET got == get_embedding_model(model, env) IN
    IF ~Truthy(vacante_skills) \/ len(vacante_skills) = 0
    THEN [score |-> PERFECT, model |-> got.model, touched |-> TRUE,
          constructed |-> got.constructed]
    ELSE IF ~Truthy(alumno_skills) \/ len(alumno_skills) = 0
    THEN [score |-> ZERO, model |-> got.model, touched |-> TRUE,
          constructed |-> got.constructed]
    ELSE semantic_or_fallback(vacante_skills, alumno_skills, model, env)

\* calculate_soft_skills_score: the score, the handle after the call and
\* whether get_embedding_model was called
calculate_soft_skills_score(vacante_skills, alumno_skills, model, env) ==
    IF ~Truthy(vacante_skills) \/ len(vacante_skills) = 0
    THEN [score |-> PERFECT, model |-> model, touched |-> FALSE,
          constructed |-> FALSE]
    ELSE IF ~Truthy(alumno_skills) \/ len(alumno_skills) = 0
    THEN [score |-> ZERO, model |-> model, touched |-> FALSE,
          constructed |-> FALSE]
    ELSE semantic_or_fallback(vacante_skills, alumno_skills, model, env)

-----------------------------------------------------------------------------
(* Score composer                                                          *)

\* weights of the hard and the soft score, in tenths
W_HARD == 8
W_SOFT == 2

\* a variant of normalize_skills that gives the segments last to first
normalize_skills_reversed(x) ==
    IF isinstance_str(x)
    THEN List([i \in 1..Len(split_skills(x).v) |->
                  split_skills(x).v[Len(split_skills(x).v) + 1 - i]])
    ELSE x

\* a comma-delimited string becomes a list, anything else is passed on
normalize_skills(x) == IF isinstance_str(x) THEN split_skills(x) ELSE x

\* a variant of final_score_raw that blends in the soft score whether or not
\* the posting requires soft skills
final_score_always_blended(use_soft_skills, hard_score, soft_score) ==
    [num |-> hard_score * W_HARD + soft_score * W_SOFT, den |-> 10 * Scale]

\* a variant of final_score_raw with the two weights exchanged
final_score_weights_exchanged(use_soft_skills, hard_score, soft_score) ==
    IF use_soft_skills
    THEN [num |-> hard_score * W_SOFT + soft_score * W_HARD, den |-> 10 * Scale]
    ELSE [num |-> hard_score, den |-> Scale]

\* final_score before it is rounded, as the fraction num / den
final_score_raw(use_soft_skills, hard_score, soft_score) ==
    IF use_soft_skills
    THEN [num |-> hard_score * W_HARD + soft_score * W_SOFT, den |-> 10 * Scale]
    ELSE [num |-> hard_score, den |-> Scale]

\* the skill arguments calculate_matching_score passes to the two scorers
scorer_arguments(vacante_data, alumno_data) ==
    [vacante_hard_skills |-> Get(vacante_data, "habilidadesDuras", List(<<>>)),
     vacante_soft_skills |-> Get(vacante_data, "habilidadesBlandas", List(<<>>)),
     alumno_hard_skills  |->
         normalize_skills(Get(alumno_data, "habilidades_tecnicas", Str(""))),
     alumno_soft_skills  |->
         normalize_skills(Get(alumno_data, "habilidades_blandas", Str("")))]

\* calculate_soft_skills_score raises: one of its two emptiness tests, which
\* stand before the try block, does
soft_raises(vacante_skills, alumno_skills) ==
    \/ sized_test_raises(vacante_skills)
    \/ /\ ~(~Truthy(vacante_skills) \/ len(vacante_skills) = 0)
       /\ sized_test_raises(alumno_skills)

\* the exception calculate_matching_score raises, "" when it returns; stage
\* is the statement that raises
matching_raises(vacante_data, alumno_data) ==
    IF get_raises(vacante_data) THEN [exc |-> "AttributeError", stage |-> "vacante"]
    ELSE LET vacante_hard_skills == Get(vacante_data, "habilidadesDuras", List(<<>>))
             vacante_soft_skills == Get(vacante_data, "habilidadesBlandas", List(<<>>))
         IN
    IF sized_test_raises(vacante_soft_skills) THEN [exc |-> "TypeError", stage |-> "use_soft"]
    ELSE IF get_raises(alumno_data) THEN [exc |-> "AttributeError", stage |-> "alumno"]
    ELSE LET alumno_hard_skills ==
                 normalize_skills(Get(alumno_data, "habilidades_tecnicas", Str("")))
             alumno_soft_skills ==
                 normalize_skills(Get(alumno_data, "habilidades_blandas", Str("")))
         IN
    IF hard_raises(vacante_hard_skills, alumno_hard_skills)
    THEN [exc |-> "TypeError", stage |-> "hard"]
    ELSE IF /\ ~(~Truthy(vacante_soft_skills) \/ len(vacante_soft_skills) = 0)
            /\ soft_raises(vacante_soft_skills, alumno_soft_skills)
    THEN [exc |-> "TypeError", stage |-> "soft"]
    ELSE [exc |-> "", stage |-> ""]

\* calculate_matching_score: the MatchResult, the handle after the call,
\* whether the semantic scorer was invoked and whether it reached the model
calculate_matching_score(vacante_data, alumno_data, model, env) ==
    IF matching_raises(vacante_data, alumno_data).exc # ""
    THEN [raised       |-> matching_raises(vacante_data, alumno_data).exc,
          scores       |-> None,
          model        |-> model,
          soft_invoked |-> matching_raises(vacante_data, alumno_data).stage = "soft",
          touched      |-> FALSE,
          constructed  |-> FALSE]
    ELSE
    LET arguments == scorer_arguments(vacante_data, alumno_data)
        vacante_hard_skills == arguments.vacante_hard_skills
        vacante_soft_skills == arguments.vacante_soft_skills
        use_soft_skills ==
            ~(~Truthy(vacante_soft_skills) \/ len(vacante_soft_skills) = 0)
        alumno_hard_skills == arguments.alumno_hard_skills
        alumno_soft_skills == arguments.alumno_soft_skills
        hard_score ==
            calculate_hard_skills_score(vacante_hard_skills, alumno_hard_skills)
        soft ==
            IF use_soft_skills
            THEN calculate_soft_skills_score(vacante_soft_skills,
                                             alumno_soft_skills, model, env)
            ELSE [score |-> PERFECT, model |-> model, touched |-> FALSE,
          constructed |-> FALSE]
        final == final_score_raw(use_soft_skills, hard_score, soft.score)
    IN  [raised |-> "",
         scores |-> [hard_skills_score |-> round2(hard_score, Scale),
                     soft_skills_score |-> round2(soft.score, Scale),
                     final_score       |-> round2(final.num, final.den)],
         model        |-> soft.model,
         soft_invoked |-> use_soft_skills,
         touched      |-> soft.touched,
         constructed  |-> soft.constructed]

-----------------------------------------------------------------------------
(* Batch ranker                                                            *)

\* a variant of insert_desc that puts the entry before the entries of equal
\* final_score
RECURSIVE insert_before_ties(_, _)
insert_before_ties(sorted, entry) ==
    IF sorted = <<>> THEN <<entry>>
    ELSE IF Head(sorted).final_score > entry.final_score
         THEN <<Head(sorted)>> \o insert_before_ties(Tail(sorted), entry)
         ELSE <<entry>> \o sorted

\* the entry insert goes after every entry whose final_score is not lower
RECURSIVE insert_desc(_, _)
insert_desc(sorted, entry) ==
    IF sorted = <<>> THEN <<entry>>
    ELSE IF Head(sorted).final_score >= entry.final_score
         THEN <<Head(sorted)>> \o insert_desc(Tail(sorted), entry)
         ELSE <<entry>> \o sorted

RECURSIVE sort_from(_, _)
sort_from(rest, sorted) ==
    IF rest = <<>> THEN sorted
    ELSE sort_from(Tail(rest), insert_desc(sorted, Head(rest)))

\* a variant of sort_by_final_score that leaves the list as it was built
keep_order(results) == results

\* results.sort(key=lambda x: x['final_score'], reverse=True): list.sort is
\* stable, also with reverse=True
sort_by_final_score(results) == sort_from(results, <<>>)

\* a variant of has_doc_id that keeps every candidate
keep_every_alumno(alumno) == TRUE

\* whether the loop of match_vacante_with_alumnos keeps the candidate
has_doc_id(alumno) == Truthy(Get(alumno, "doc_id", None))

\* a variant of ranked_entry whose name and contact default to the empty
\* string
ranked_entry_empty_default(alumno, scores) ==
    [alumno_id         |-> Get(alumno, "doc_id", None),
     alumno_nombre     |-> Get(alumno, "nombre", Str("")),
     alumno_correo     |-> Get(alumno, "correo", Str("")),
     hard_skills_score |-> scores.hard_skills_score,
     soft_skills_score |-> scores.soft_skills_score,
     final_score       |-> scores.final_score]

\* the entry appended for one candidate
ranked_entry(alumno, scores) ==
    [alumno_id         |-> Get(alumno, "doc_id", None),
     alumno_nombre     |-> Get(alumno, "nombre", Str("N/A")),
     alumno_correo     |-> Get(alumno, "correo", Str("N/A")),
     hard_skills_score |-> scores.hard_skills_score,
     soft_skills_score |-> scores.soft_skills_score,
     final_score       |-> scores.final_score]

\* the state of a batch loop before its first entry
LoopStart(results, model) ==
    [results |-> results, raised |-> "", model |-> model,
     soft_invoked |-> FALSE, touched |-> FALSE, constructions |-> 0]

\* the state of a batch loop after an entry was scored with outcome m
LoopStep(st, results, m) ==
    [results      |-> IF m.raised = "" THEN results ELSE st.results,
     raised       |-> m.raised,
     model        |-> m.model,
     soft_invoked |-> st.soft_invoked \/ m.soft_invoked,
     touched      |-> st.touched \/ m.touched,
     constructions |-> st.constructions + Count(m.constructed)]

\* One pass of the loop over alumnos_list; st holds the results so far, the
\* handle and what the calls so far invoked.  The outcome m of the call and
\* the state next of the loop are bound to their values, each computed once.
alumnos_step(vacante_data, alumno, env, st) ==
    IF st.raised # "" THEN st
    ELSE IF get_raises(alumno) THEN [st EXCEPT !.raised = "AttributeError"]
    ELSE IF ~has_doc_id(alumno) THEN st
    ELSE CHOOSE next \in
             {LoopStep(st, Append(st.results, ranked_entry(alumno, m.scores)), m) :
                 m \in {calculate_matching_score(vacante_data, alumno, st.model, env)}} :
             TRUE

\* the loop over alumnos_list from position i on
RECURSIVE alumnos_loop(_, _, _, _, _)
alumnos_loop(vacante_data, alumnos_list, envs, i, st) ==
    IF i > Len(alumnos_list) THEN st
    ELSE CHOOSE last \in
             {alumnos_loop(vacante_data, alumnos_list, envs, i + 1, next) :
                 next \in {alumnos_step(vacante_data, alumnos_list[i], envs[i], st)}} :
             TRUE

\* match_vacante_with_alumnos: the ranked list, the handle after the call
\* and what the call invoked
match_vacante_with_alumnos(vacante_data, alumnos_list, model, envs) ==
    CHOOSE sorted \in
        {[st EXCEPT !.results = sort_by_final_score(st.results)] :
            st \in {alumnos_loop(vacante_data, alumnos_list, envs, 1,
                                 LoopStart(<<>>, model))}} :
        TRUE

\* a variant of resolve_alumno_id that takes the text of a reference object
\* for the identifier
resolve_alumno_id_by_text(alumno_ref) ==
    IF alumno_ref.t = "ref" THEN "<ref " \o alumno_ref.id \o ">" ELSE alumno_ref.v

\* the candidate id an application refers to
resolve_alumno_id(alumno_ref) ==
    IF alumno_ref.t = "ref" THEN alumno_ref.id ELSE alumno_ref.v

\* alumnos_dict.get(alumno_id)
lookup_alumno(alumnos_dict, alumno_id) ==
    IF alumno_id \in DOMAIN alumnos_dict THEN alumnos_dict[alumno_id] ELSE None

\* results[alumno_id] = scores
dict_set(results, alumno_id, scores) ==
    [k \in DOMAIN results \cup {alumno_id} |->
        IF k = alumno_id THEN scores ELSE results[k]]

\* one pass of the loop over postulaciones_list
postulaciones_step(vacante_data, postulacion, alumnos_dict, env, st) ==
    LET alumno_ref == Get(postulacion, "alumnoID", None) IN
    IF st.raised # "" \/ ~Truthy(alumno_ref) THEN st
    ELSE LET alumno_id   == resolve_alumno_id(alumno_ref)
             alumno_data == lookup_alumno(alumnos_dict, alumno_id)
         IN  IF ~Truthy(alumno_data) THEN st
             ELSE CHOOSE next \in
                      {LoopStep(st, dict_set(st.results, alumno_id, m.scores), m) :
                          m \in {calculate_matching_score(vacante_data, alumno_data,
                                                          st.model, env)}} :
                      TRUE

\* the loop over postulaciones_list from position i on
RECURSIVE postulaciones_loop(_, _, _, _, _, _)
postulaciones_loop(vacante_data, postulaciones_list, alumnos_dict, envs, i, st) ==
    IF i > Len(postulaciones_list) THEN st
    ELSE CHOOSE last \in
             {postulaciones_loop(vacante_data, postulaciones_list, alumnos_dict,
                                 envs, i + 1, next) :
                 next \in {postulaciones_step(vacante_data, postulaciones_list[i],
                                              alumnos_dict, envs[i], st)}} :
             TRUE

\* match_vacante_with_postulantes: the mapping, the handle after the call
\* and what the call invoked
match_vacante_with_postulantes(vacante_data, postulaciones_list, alumnos_dict, model, envs) ==
    postulaciones_loop(vacante_data, postulaciones_list, alumnos_dict, envs, 1,
                       LoopStart(<<>>, model))

-----------------------------------------------------------------------------
(* Document store: the collection "vacantes" and its subcollections        *)
(* "matching_scores" (src/firebase.py)                                     *)

\* the document ids of the model
VacanteIds == {"v1", "v2"}
AlumnoIds == {"a1", "a2"}

\* document ids in the order a query returns them (by document id)
IdOrder == <<"a1", "a2", "v1", "v2">>

\* firestore.SERVER_TIMESTAMP, and the time the server writes for it
SERVER_TIMESTAMP == [t |-> "timestamp"]

\* Python True and False
Bool(b) == [t |-> "bool", v |-> b]

\* a collection without documents
NoDocuments == [id \in {} |-> None]

\* the concurrent requests of the host
Requests == 1..MaxRequests

\* a request that runs no call
NoRequest == [pc |-> "idle"]

\* what the store does with the requests of one call: it serves them all
\* (0), or the k-th of them raises (unavailable, permission denied, ...)
Unavailable(fail_at, k) == fail_at = k

\* the ids of the documents of a collection, in query order
stream(docs) ==
    LET Stored(id) == id \in DOMAIN docs
    IN  SelectSeq(IdOrder, Stored)

\* DocumentReference.delete
delete_document(docs, id) == [a \in DOMAIN docs \ {id} |-> docs[a]]

\* DocumentReference.set
set_document(docs, id, data) ==
    [a \in DOMAIN docs \cup {id} |-> IF a = id THEN data ELSE docs[a]]

\* {**d, key: value}
with_field(d, key, value) ==
    [k \in DOMAIN d \cup {key} |-> IF k = key THEN value ELSE d[k]]

\* the document create_vacante writes; descripcion, requisitos, modalidad,
\* tipoContrato, duracion, horario, sueldo, educacion, experienciaRequerida,
\* idiomas, nombreEmpresa and correoEmpresa are copied as titulo is
vacante_document(empresa_doc_id, vacante_data) ==
    Dict([empresaId        |-> Ref(empresa_doc_id),
          titulo           |-> Get(vacante_data, "titulo", Str("")),
          habilidadesDuras |-> Get(vacante_data, "habilidadesDuras", List(<<>>)),
          activa           |-> Bool(TRUE),
          created_at       |-> SERVER_TIMESTAMP,
          updated_at       |-> SERVER_TIMESTAMP])

\* create_vacante with the generated document id new_id: the id, or None
\* when vacante_data has no get or the store raises
create_vacante(docs, new_id, empresa_doc_id, vacante_data, fail_at) ==
    IF get_raises(vacante_data) \/ Unavailable(fail_at, 1)
    THEN [ret |-> None, vacantes |-> docs]
    ELSE [ret |-> Str(new_id),
          vacantes |-> [docs EXCEPT
                           ![new_id] = vacante_document(empresa_doc_id, vacante_data)]]

\* a variant of allowed_fields that lets the soft-skill requirement through
allowed_fields_with_soft_skills ==
    {"titulo", "habilidadesDuras", "habilidadesBlandas", "activa"}

\* the fields update_vacante copies (of the fields create_vacante writes,
\* those of the model)
allowed_fields == {"titulo", "habilidadesDuras", "activa"}

\* update_data of update_vacante
update_data_of(vacante_data) ==
    with_field([field \in allowed_fields \cap DOMAIN vacante_data.v |->
                   vacante_data.v[field]],
               "updated_at", SERVER_TIMESTAMP)

\* update_vacante: True, or False when vacante_data is no container, the
\* document does not exist or the store raises
update_vacante(docs, vacante_id, vacante_data, fail_at) ==
    IF \/ get_raises(vacante_data)
       \/ Unavailable(fail_at, 1)
       \/ docs[vacante_id] = Absent
    THEN [ret |-> Bool(FALSE), vacantes |-> docs]
    ELSE LET update_data == update_data_of(vacante_data)
             old == docs[vacante_id].v
         IN  [ret |-> Bool(TRUE),
              vacantes |->
                  [docs EXCEPT ![vacante_id] =
                      Dict([k \in DOMAIN old \cup DOMAIN update_data |->
                               IF k \in DOMAIN update_data
                               THEN update_data[k] ELSE old[k]])]]

\* get_vacante_by_id: the document with its id, or None
get_vacante_by_id(docs, vacante_id, fail_at) ==
    IF Unavailable(fail_at, 1) \/ docs[vacante_id] = Absent THEN None
    ELSE Dict(with_field(docs[vacante_id].v, "id", Str(vacante_id)))

\* the collection "alumnos" as the calls find it; "a9" has no document
alumnos_documents ==
    [id \in AlumnoIds |->
        IF id = "a1" THEN BatchAlumno("A", Absent) ELSE BatchAlumno("B", Absent)]

\* get_alumno_by_id: the document with its doc_id, or None
get_alumno_by_id(alumno_doc_id, unavailable) ==
    IF unavailable \/ alumno_doc_id \notin DOMAIN alumnos_documents THEN None
    ELSE Dict(with_field(alumnos_documents[alumno_doc_id].v, "doc_id",
                         Str(alumno_doc_id)))

\* the document written for a score: {**score_data, "computed_at": ...}
score_document(score_data) ==
    Dict(with_field(score_data.v, "computed_at", SERVER_TIMESTAMP))

\* a variant of operations_of (below) that does not delete the existing
\* documents
operations_without_delete(existing, items) ==
    IF items = None THEN <<[op |-> "raise"]>>
    ELSE [i \in 1..Len(items.v) |->
             [op |-> "set", id |-> items.v[i].key,
              data |-> score_document(items.v[i].score_data)]]

\* the writes of save_matching_scores after its query, in the order it
\* makes them: one delete per existing document, then one set per item of
\* scores_dict.items(); items is None when scores_dict has no items()
operations_of(existing, items) ==
    [i \in 1..Len(existing) |-> [op |-> "delete", id |-> existing[i]]]
        \o (IF items = None THEN <<[op |-> "raise"]>>
            ELSE [i \in 1..Len(items.v) |->
                     [op |-> "set", id |-> items.v[i].key,
                      data |-> score_document(items.v[i].score_data)]])

\* the subcollection after the first n operations
RECURSIVE apply_operations(_, _, _)
apply_operations(docs, operations, n) ==
    IF n = 0 THEN docs
    ELSE LET before == apply_operations(docs, operations, n - 1)
             o == operations[n]
         IN  IF o.op = "delete" THEN delete_document(before, o.id)
             ELSE set_document(before, o.id, o.data)

\* save_matching_scores: request 1 is the query, request k + 1 the k-th
\* write; the call stops at the first request that raises and returns False
save_matching_scores(scores, vacante_id, items, fail_at) ==
    LET docs == scores[vacante_id]
        operations == operations_of(stream(docs), items)
        raising == {k \in 1..Len(operations) :
                       operations[k].op = "raise" \/ Unavailable(fail_at, k + 1)}
        done == IF Unavailable(fail_at, 1) THEN 0
                ELSE IF raising = {} THEN Len(operations)
                ELSE (CHOOSE k \in raising : \A j \in raising : k <= j) - 1
    IN  [ret |-> Bool(~Unavailable(fail_at, 1) /\ raising = {}),
         matching_scores |->
             [scores EXCEPT ![vacante_id] = apply_operations(docs, operations, done)]]

\* get_matching_scores: the documents by id, {} when the store raises
get_matching_scores(scores, vacante_id, fail_at) ==
    IF Unavailable(fail_at, 1) THEN Dict(NoDocuments)
    ELSE Dict([id \in DOMAIN scores[vacante_id] |-> scores[vacante_id][id]])

\* what calculate_and_save_single_score does with the result r of
\* calculate_matching_score: it writes the scores and returns them, or
\* returns None when the call or the write raised
save_single_score(scores, vacante_id, alumno_id, vacante_data, r, unavailable) ==
    LET computed == [ret |-> None, matching_scores |-> scores, model |-> r.model,
                     soft_invoked |-> r.soft_invoked, touched |-> r.touched,
                     constructed |-> r.constructed, vacante_data |-> vacante_data]
    IN  IF r.raised # "" \/ unavailable THEN computed
        ELSE [computed EXCEPT
                 !.ret = Dict(r.scores),
                 !.matching_scores =
                     [scores EXCEPT ![vacante_id] =
                         set_document(scores[vacante_id], alumno_id,
                                      score_document(Dict(r.scores)))]]

\* the posting and the candidate calculate_and_save_single_score fetches
\* (requests 1 and 2 of the call)
fetched(docs, vacante_id, alumno_id, fail_at) ==
    [vacante_data |-> get_vacante_by_id(docs, vacante_id, fail_at),
     alumno_data  |-> get_alumno_by_id(alumno_id, Unavailable(fail_at, 2))]

\* calculate_and_save_single_score: None when the posting or the candidate
\* is not found, else the scores of the two, written with request 3
calculate_and_save_single_score(docs, scores, vacante_id, alumno_id, model, env, fail_at) ==
    CHOOSE result \in UNION {
        IF ~Truthy(f.vacante_data) \/ ~Truthy(f.alumno_data)
        THEN {[ret |-> None, matching_scores |-> scores, model |-> model,
               soft_invoked |-> FALSE, touched |-> FALSE, constructed |-> FALSE,
               vacante_data |-> f.vacante_data]}
        ELSE {save_single_score(scores, vacante_id, alumno_id, f.vacante_data, r,
                                Unavailable(fail_at, 3)) :
                 r \in {calculate_matching_score(f.vacante_data, f.alumno_data,
                                                 model, env)}} :
            f \in {fetched(docs, vacante_id, alumno_id, fail_at)}} : TRUE

-----------------------------------------------------------------------------
(* State                                                                   *)

VARIABLES
    pc,               \* the caller: "idle", or "done" when a call has returned
    call,             \* the call that returned: function, arguments, environment
    ret,              \* the value it returned
    embedding_model,  \* the module-level handle _embedding_model
    soft_invoked,     \* the call invoked calculate_soft_skills_score
    touched,          \* the call invoked get_embedding_model
    thread_pc,        \* per host thread: its position in get_embedding_model
    thread_model,     \* per host thread: the instance its constructor returned
    constructions,    \* how many times SentenceTransformer(...) has returned
    vacantes,         \* the documents of the collection "vacantes", by id
    matching_scores,  \* per vacante id: its subcollection "matching_scores"
    request,          \* per concurrent request: its call and its position in it
    quiet_scores      \* matching_scores when no request was last in progress

threads == <<thread_pc, thread_model, constructions>>

\* the document store
store == <<vacantes, matching_scores>>

\* the requests that use the store concurrently
requests == <<request, quiet_scores>>

vars == <<pc, call, ret, embedding_model, soft_invoked, touched,
          thread_pc, thread_model, constructions,
          vacantes, matching_scores, request, quiet_scores>>

\* the threads of the host that call get_embedding_model concurrently
Threads == 1..MaxThreads

NoCall == [fn |-> "none"]

\* The environments of an attempt made with handle model.  The weights are
\* read when the model is constructed; a process constructs it at most once
\* with success, so the weights of a loaded model are the loaded ones.
Envs(model) ==
    IF model = None
    THEN [weights : Encoders, outcome : Outcomes]
    ELSE [weights : {model}, outcome : Outcomes \ {"load_fail"}]

\* an environment that fails nothing
QuietEnv(model) ==
    [weights |-> IF model = None THEN CHOOSE e \in Encoders : TRUE ELSE model,
     outcome |-> "ok"]

\* the environment acts only on a call that reaches get_embedding_model
EnvsOf(model, reaches_model) ==
    IF reaches_model THEN Envs(model) ELSE {QuietEnv(model)}

Init ==
    /\ pc = "idle"
    /\ call = NoCall
    /\ ret = None
    /\ embedding_model = None
    /\ soft_invoked = FALSE
    /\ touched = FALSE
    /\ thread_pc = [t \in Threads |-> "idle"]
    /\ thread_model = [t \in Threads |-> None]
    /\ constructions = 0
    /\ vacantes = [id \in VacanteIds |-> Absent]
    /\ matching_scores = [id \in VacanteIds |-> NoDocuments]
    /\ request = [r \in Requests |-> NoRequest]
    /\ quiet_scores = [id \in VacanteIds |-> NoDocuments]

\* a Python list of str
StrList(strings) == List([i \in 1..Len(strings) |-> Str(strings[i])])

CallPreprocess ==
    /\ pc = "idle"
    /\ \E text \in PreprocessTexts :
          /\ call' = [fn |-> "preprocess_text", text |-> text]
          /\ ret' = StrList(preprocess_text(text))
    /\ pc' = "done"
    /\ UNCHANGED <<threads, store, requests>>
    /\ soft_invoked' = FALSE
    /\ touched' = FALSE
    /\ UNCHANGED embedding_model

CallHard ==
    /\ pc = "idle"
    /\ \E vacante_skills \in HardSkillSets, alumno_skills \in HardSkillSets :
          /\ call' = [fn |-> "calculate_hard_skills_score",
                      vacante_skills |-> vacante_skills,
                      alumno_skills |-> alumno_skills]
          /\ ret' = Float(calculate_hard_skills_score(vacante_skills, alumno_skills))
    /\ pc' = "done"
    /\ UNCHANGED <<threads, store, requests>>
    /\ soft_invoked' = FALSE
    /\ touched' = FALSE
    /\ UNCHANGED embedding_model

CallSoft ==
    /\ pc = "idle"
    /\ \E vacante_skills \in SoftSkillSets, alumno_skills \in SoftSkillSets :
          \E env \in EnvsOf(embedding_model,
                            calculate_soft_skills_score(
                                vacante_skills, alumno_skills, embedding_model,
                                QuietEnv(embedding_model)).touched) :
             \E r \in {calculate_soft_skills_score(vacante_skills, alumno_skills,
                                                  embedding_model, env)} :
                 /\ call' = [fn |-> "calculate_soft_skills_score",
                             vacante_skills |-> vacante_skills,
                             alumno_skills |-> alumno_skills,
                             model |-> embedding_model,
                             env |-> env]
                 /\ ret' = Float(r.score)
                 /\ embedding_model' = r.model
                 /\ touched' = r.touched
                 /\ constructions' = constructions + Count(r.constructed)
    /\ pc' = "done"
    /\ UNCHANGED <<thread_pc, thread_model, store, requests>>
    /\ soft_invoked' = TRUE

CallMatching ==
    /\ pc = "idle"
    /\ \E vacante_data \in Vacantes \cup OtherVacantes,
          alumno_data \in Alumnos \cup OtherAlumnos :
          \E env \in EnvsOf(embedding_model,
                            calculate_matching_score(
                                vacante_data, alumno_data, embedding_model,
                                QuietEnv(embedding_model)).touched) :
             \E r \in {calculate_matching_score(vacante_data, alumno_data,
                                               embedding_model, env)} :
                 /\ call' = [fn |-> "calculate_matching_score",
                             vacante_data |-> vacante_data,
                             alumno_data |-> alumno_data,
                             model |-> embedding_model,
                             env |-> env]
                 /\ ret' = IF r.raised # "" THEN Raise(r.raised) ELSE Dict(r.scores)
                 /\ embedding_model' = r.model
                 /\ soft_invoked' = r.soft_invoked
                 /\ touched' = r.touched
                 /\ constructions' = constructions + Count(r.constructed)
    /\ pc' = "done"
    /\ UNCHANGED <<thread_pc, thread_model, store, requests>>

\* the environments of a batch call: one per entry, with the same weights;
\* reach[i] says whether entry i reaches get_embedding_model
BatchEnvs(model, reach) ==
    LET n == Len(reach)
        any == \E i \in 1..n : reach[i]
        outcomes == {o \in [1..n -> Outcomes] :
                        \A i \in 1..n :
                            /\ ~reach[i] => o[i] = "ok"
                            /\ model # None => o[i] # "load_fail"}
        weights == IF any THEN {e.weights : e \in Envs(model)}
                   ELSE {QuietEnv(model).weights}
    IN  {[i \in 1..n |-> [weights |-> w, outcome |-> o[i]]] :
            w \in weights, o \in outcomes}

\* whether scoring the candidate reaches get_embedding_model
ReachesModel(vacante_data, alumno_data, model) ==
    calculate_matching_score(vacante_data, alumno_data, model,
                             QuietEnv(model)).touched

\* whether the loop of match_vacante_with_alumnos raises at the candidate
ScoringRaises(vacante_data, alumno) ==
    has_doc_id(alumno) /\ matching_raises(vacante_data, alumno).exc # ""

CallMatchAlumnos ==
    /\ pc = "idle"
    /\ \E vacante_data \in BatchVacantes, alumnos_list \in AlumnosLists :
          \E envs \in BatchEnvs(embedding_model,
                                [i \in 1..Len(alumnos_list) |->
                                    /\ \A j \in 1..(i - 1) :
                                          ~ScoringRaises(vacante_data, alumnos_list[j])
                                    /\ has_doc_id(alumnos_list[i])
                                    /\ ReachesModel(vacante_data, alumnos_list[i],
                                                    embedding_model)]) :
             \E r \in {match_vacante_with_alumnos(vacante_data, alumnos_list,
                                                 embedding_model, envs)} :
                 /\ call' = [fn |-> "match_vacante_with_alumnos",
                             vacante_data |-> vacante_data,
                             alumnos_list |-> alumnos_list,
                             model |-> embedding_model,
                             envs |-> envs]
                 /\ ret' = IF r.raised # "" THEN Raise(r.raised) ELSE List(r.results)
                 /\ embedding_model' = r.model
                 /\ soft_invoked' = r.soft_invoked
                 /\ touched' = r.touched
                 /\ constructions' = constructions + r.constructions
    /\ pc' = "done"
    /\ UNCHANGED <<thread_pc, thread_model, store, requests>>

\* the candidate record application postulacion resolves to, None without
resolved_alumno(postulacion, alumnos_dict) ==
    LET alumno_ref == Get(postulacion, "alumnoID", None) IN
    IF ~Truthy(alumno_ref) THEN None
    ELSE lookup_alumno(alumnos_dict, resolve_alumno_id(alumno_ref))

CallMatchPostulantes ==
    /\ pc = "idle"
    /\ \E vacante_data \in BatchVacantes, postulaciones_list \in PostulacionesLists,
          alumnos_dict \in AlumnosDicts :
          \E envs \in BatchEnvs(embedding_model,
                                [i \in 1..Len(postulaciones_list) |->
                                    LET a == resolved_alumno(postulaciones_list[i],
                                                             alumnos_dict)
                                    IN  /\ Truthy(a)
                                        /\ ReachesModel(vacante_data, a,
                                                        embedding_model)]) :
             \E r \in {match_vacante_with_postulantes(vacante_data, postulaciones_list,
                                                     alumnos_dict, embedding_model,
                                                     envs)} :
                 /\ call' = [fn |-> "match_vacante_with_postulantes",
                             vacante_data |-> vacante_data,
                             postulaciones_list |-> postulaciones_list,
                             alumnos_dict |-> alumnos_dict,
                             model |-> embedding_model,
                             envs |-> envs]
                 /\ ret' = IF r.raised # "" THEN Raise(r.raised) ELSE Dict(r.results)
                 /\ embedding_model' = r.model
                 /\ soft_invoked' = r.soft_invoked
                 /\ touched' = r.touched
                 /\ constructions' = constructions + r.constructions
    /\ pc' = "done"
    /\ UNCHANGED <<thread_pc, thread_model, store, requests>>

\* the soft scorer call a caller may make between two calls of
\* calculate_matching_score
BetweenSoft(model, env) ==
    calculate_soft_skills_score(List(<<Str("Liderazgo")>>),
                                List(<<Str("Trabajo en equipo")>>), model, env)

\* A caller scores the same posting and candidate twice, with a call of the
\* soft scorer in between or without: the first call runs in env, the call in
\* between in env_between and the second call in env2.
CallMatchingTwice ==
    /\ pc = "idle"
    /\ \E vacante_data \in BatchVacantes, kind \in {"A", "B"},
          between \in {"none", "soft"} :
          LET alumno_data == BatchAlumno(kind, Str("a1")) IN
          \E env \in EnvsOf(embedding_model,
                            ReachesModel(vacante_data, alumno_data, embedding_model)) :
          \E r1 \in {calculate_matching_score(vacante_data, alumno_data,
                                              embedding_model, env)} :
          \E env_between \in EnvsOf(r1.model, between = "soft") :
          \E model2 \in {IF between = "soft"
                          THEN BetweenSoft(r1.model, env_between).model
                          ELSE r1.model} :
          \E env2 \in EnvsOf(model2,
                             ReachesModel(vacante_data, alumno_data, model2)) :
          \E r2 \in {calculate_matching_score(vacante_data, alumno_data,
                                              model2, env2)} :
              /\ call' = [fn |-> "calculate_matching_score twice",
                          vacante_data |-> vacante_data,
                          alumno_data |-> alumno_data,
                          between |-> between,
                          model |-> embedding_model,
                          env |-> env,
                          env_between |-> env_between,
                          env2 |-> env2]
              /\ ret' = List(<<Dict(r1.scores), Dict(r2.scores)>>)
              /\ embedding_model' = r2.model
              /\ soft_invoked' = (r1.soft_invoked \/ between = "soft")
              /\ touched' = (r1.touched \/ between = "soft" \/ r2.touched)
              /\ constructions' =
                    constructions + Count(r1.constructed) + Count(r2.constructed)
                        + Count(between = "soft"
                                  /\ BetweenSoft(r1.model, env_between).constructed)
    /\ pc' = "done"
    /\ UNCHANGED <<thread_pc, thread_model, store, requests>>

\* the caller goes on to its next call
Return ==
    /\ pc = "done"
    /\ pc' = "idle"
    /\ UNCHANGED <<threads, store, requests>>
    /\ call' = NoCall
    /\ ret' = None
    /\ soft_invoked' = FALSE
    /\ touched' = FALSE
    /\ UNCHANGED embedding_model

Next ==
    \/ CallPreprocess
    \/ CallHard
    \/ CallSoft
    \/ CallMatching
    \/ CallMatchAlumnos
    \/ CallMatchPostulantes
    \/ CallMatchingTwice
    \/ Return

Spec == Init /\ [][Next]_vars

-----------------------------------------------------------------------------
(* get_embedding_model called from concurrent threads                      *)

\* what the sequential caller owns
caller == <<pc, call, ret, soft_invoked, touched>>

\* a thread enters get_embedding_model
ThreadCall(t) ==
    /\ thread_pc[t] = "idle"
    /\ thread_pc' = [thread_pc EXCEPT ![t] = "check"]
    /\ UNCHANGED <<thread_model, constructions, embedding_model, caller, store, requests>>

\* if _embedding_model is None: the thread reads the handle
ThreadCheck(t) ==
    /\ thread_pc[t] = "check"
    /\ thread_pc' = [thread_pc EXCEPT ![t] =
                        IF embedding_model = None THEN "construct" ELSE "return"]
    /\ UNCHANGED <<thread_model, constructions, embedding_model, caller, store, requests>>

\* SentenceTransformer(name) returns an instance, which the thread holds
ThreadConstruct(t) ==
    /\ thread_pc[t] = "construct"
    /\ \E weights \in Encoders :
          thread_model' = [thread_model EXCEPT ![t] = weights]
    /\ constructions' = constructions + 1
    /\ thread_pc' = [thread_pc EXCEPT ![t] = "assign"]
    /\ UNCHANGED <<embedding_model, caller, store, requests>>

\* SentenceTransformer(name) raises: the exception leaves get_embedding_model
ThreadConstructRaises(t) ==
    /\ thread_pc[t] = "construct"
    /\ thread_pc' = [thread_pc EXCEPT ![t] = "idle"]
    /\ UNCHANGED <<thread_model, constructions, embedding_model, caller, store, requests>>

\* _embedding_model = <the instance>
ThreadAssign(t) ==
    /\ thread_pc[t] = "assign"
    /\ embedding_model' = thread_model[t]
    /\ thread_pc' = [thread_pc EXCEPT ![t] = "return"]
    /\ UNCHANGED <<thread_model, constructions, caller, store, requests>>

\* return _embedding_model
ThreadReturn(t) ==
    /\ thread_pc[t] = "return"
    /\ thread_pc' = [thread_pc EXCEPT ![t] = "idle"]
    /\ thread_model' = [thread_model EXCEPT ![t] = None]
    /\ UNCHANGED <<constructions, embedding_model, caller, store, requests>>

NextThreads ==
    \E t \in Threads :
        \/ ThreadCall(t)
        \/ ThreadCheck(t)
        \/ ThreadConstruct(t)
        \/ ThreadConstructRaises(t)
        \/ ThreadAssign(t)
        \/ ThreadReturn(t)

SpecThreads == Init /\ [][NextThreads]_vars

-----------------------------------------------------------------------------
(* The store functions of firebase.py called one after the other           *)

\* the dicts a route passes as vacante_data: a full form with a soft-skill
\* requirement, a form with reordered skills and a soft-skill string, a form
\* whose habilidadesDuras is a number, and no dict
VacanteForms ==
    {None,
     Record([titulo |-> Str("Analista"),
             habilidadesDuras |-> List(<<Str("SQL"), Str("Git")>>),
             habilidadesBlandas |-> List(<<Str("Liderazgo")>>)]),
     Record([titulo |-> Absent,
             habilidadesDuras |-> List(<<Str("Git"), Str("SQL")>>),
             habilidadesBlandas |-> Str("Liderazgo")]),
     Record([titulo |-> Absent,
             habilidadesDuras |-> PyInt(5),
             habilidadesBlandas |-> Absent])}

\* a MatchResult, its scores in hundredths
MatchResult(hard, soft, final) ==
    Dict([hard_skills_score |-> hard * (Scale \div 100),
          soft_skills_score |-> soft * (Scale \div 100),
          final_score       |-> final * (Scale \div 100)])

\* an item of scores_dict.items()
Item(alumno_id, score_data) == [key |-> alumno_id, score_data |-> score_data]

\* the values passed as scores_dict, a dict by its items in insertion
\* order: no dict, {}, one score, another score, two scores
ScoreDicts ==
    {None,
     List(<<>>),
     List(<<Item("a1", MatchResult(800, 500, 740))>>),
     List(<<Item("a2", MatchResult(250, 1000, 250))>>),
     List(<<Item("a2", MatchResult(250, 1000, 250)),
            Item("a1", MatchResult(800, 500, 740))>>)}

\* the requests save_matching_scores makes at most: the query and its writes
RequestsOfSave(scores, vacante_id, items) ==
    1 + Len(operations_of(stream(scores[vacante_id]), items))

CallCreateVacante ==
    /\ pc = "idle"
    /\ \E new_id \in {id \in VacanteIds : vacantes[id] = Absent},
          vacante_data \in VacanteForms, fail_at \in 0..1 :
          \E r \in {create_vacante(vacantes, new_id, "e1", vacante_data, fail_at)} :
              /\ call' = [fn |-> "create_vacante", vacante_data |-> vacante_data,
                          fail_at |-> fail_at]
              /\ ret' = r.ret
              /\ vacantes' = r.vacantes
    /\ pc' = "done"
    /\ UNCHANGED <<embedding_model, soft_invoked, touched, threads,
                   matching_scores, requests>>

CallUpdateVacante ==
    /\ pc = "idle"
    /\ \E vacante_id \in VacanteIds, vacante_data \in VacanteForms, fail_at \in 0..1 :
          \E r \in {update_vacante(vacantes, vacante_id, vacante_data, fail_at)} :
              /\ call' = [fn |-> "update_vacante", vacante_id |-> vacante_id,
                          vacante_data |-> vacante_data, fail_at |-> fail_at]
              /\ ret' = r.ret
              /\ vacantes' = r.vacantes
    /\ pc' = "done"
    /\ UNCHANGED <<embedding_model, soft_invoked, touched, threads,
                   matching_scores, requests>>

CallSaveMatchingScores ==
    /\ pc = "idle"
    /\ \E vacante_id \in VacanteIds, scores_dict \in ScoreDicts :
          \E fail_at \in 0..RequestsOfSave(matching_scores, vacante_id, scores_dict) :
             \E r \in {save_matching_scores(matching_scores, vacante_id,
                                            scores_dict, fail_at)} :
                 /\ call' = [fn |-> "save_matching_scores", vacante_id |-> vacante_id,
                             scores_dict |-> scores_dict, fail_at |-> fail_at,
                             before |-> matching_scores]
                 /\ ret' = r.ret
                 /\ matching_scores' = r.matching_scores
    /\ pc' = "done"
    /\ UNCHANGED <<embedding_model, soft_invoked, touched, threads,
                   vacantes, requests>>

CallGetMatchingScores ==
    /\ pc = "idle"
    /\ \E vacante_id \in VacanteIds, fail_at \in 0..1 :
          /\ call' = [fn |-> "get_matching_scores", vacante_id |-> vacante_id,
                      fail_at |-> fail_at]
          /\ ret' = get_matching_scores(matching_scores, vacante_id, fail_at)
    /\ pc' = "done"
    /\ UNCHANGED <<embedding_model, soft_invoked, touched, threads, store, requests>>

CallSingleScore ==
    /\ pc = "idle"
    /\ \E vacante_id \in VacanteIds, alumno_id \in AlumnoIds \cup {"a9"},
          fail_at \in 0..3 :
          \E env \in EnvsOf(embedding_model,
                            calculate_and_save_single_score(
                                vacantes, matching_scores, vacante_id, alumno_id,
                                embedding_model, QuietEnv(embedding_model),
                                fail_at).touched) :
             \E r \in {calculate_and_save_single_score(
                           vacantes, matching_scores, vacante_id, alumno_id,
                           embedding_model, env, fail_at)} :
                 /\ call' = [fn |-> "calculate_and_save_single_score",
                             vacante_id |-> vacante_id, alumno_id |-> alumno_id,
                             vacante_data |-> r.vacante_data,
                             model |-> embedding_model, env |-> env,
                             fail_at |-> fail_at]
                 /\ ret' = r.ret
                 /\ matching_scores' = r.matching_scores
                 /\ embedding_model' = r.model
                 /\ soft_invoked' = r.soft_invoked
                 /\ touched' = r.touched
                 /\ constructions' = constructions + Count(r.constructed)
    /\ pc' = "done"
    /\ UNCHANGED <<thread_pc, thread_model, vacantes, requests>>

NextStore ==
    \/ CallCreateVacante
    \/ CallUpdateVacante
    \/ CallSaveMatchingScores
    \/ CallGetMatchingScores
    \/ CallSingleScore
    \/ Return

SpecStore == Init /\ [][NextStore]_vars

-----------------------------------------------------------------------------
(* save_matching_scores and get_matching_scores called by concurrent       *)
(* requests: every query and every document write is one step              *)

\* the vacante whose scores the concurrent requests save and read
SharedVacantes == {"v1"}

\* the score mappings they save: the two with one entry, for a1 and for a2
RequestScoreDicts == {d \in ScoreDicts \ {None} : Len(d.v) = 1}

\* what the concurrent requests leave alone
sequential == <<caller, embedding_model, threads, vacantes>>

\* the requests that have entered a call and not yet left it
InCall == {r \in Requests : request[r].pc # "idle"}

\* a request enters save_matching_scores
RequestSave(r) ==
    /\ request[r].pc = "idle"
    /\ \E vacante_id \in SharedVacantes, scores_dict \in RequestScoreDicts :
          request' = [request EXCEPT ![r] =
                         [pc |-> "query", fn |-> "save_matching_scores",
                          vacante_id |-> vacante_id, scores_dict |-> scores_dict]]
    /\ UNCHANGED <<matching_scores, quiet_scores, sequential>>

\* existing_scores = scores_ref.stream(): the query is answered with the
\* documents the subcollection holds at this moment
SaveQuery(r) ==
    /\ request[r].pc = "query"
    /\ request[r].fn = "save_matching_scores"
    /\ request' = [request EXCEPT ![r] =
                      [pc |-> "write", fn |-> request[r].fn,
                       vacante_id |-> request[r].vacante_id,
                       scores_dict |-> request[r].scores_dict,
                       operations |->
                           operations_of(
                               stream(matching_scores[request[r].vacante_id]),
                               request[r].scores_dict),
                       next |-> 1]]
    /\ UNCHANGED <<matching_scores, quiet_scores, sequential>>

\* doc.reference.delete() or score_doc.set(...): the next write of the call
SaveWrite(r) ==
    /\ request[r].pc = "write"
    /\ request[r].next <= Len(request[r].operations)
    /\ request[r].operations[request[r].next].op # "raise"
    /\ LET o == request[r].operations[request[r].next]
           v == request[r].vacante_id
       IN  matching_scores' =
               [matching_scores EXCEPT ![v] =
                   IF o.op = "delete" THEN delete_document(matching_scores[v], o.id)
                   ELSE set_document(matching_scores[v], o.id, o.data)]
    /\ request' = [request EXCEPT ![r].next = request[r].next + 1]
    /\ UNCHANGED <<quiet_scores, sequential>>

\* return True: every document is deleted and written
SaveReturn(r) ==
    /\ request[r].pc = "write"
    /\ request[r].next > Len(request[r].operations)
    /\ request' = [request EXCEPT ![r] =
                      [pc |-> "returned", fn |-> request[r].fn,
                       vacante_id |-> request[r].vacante_id,
                       scores_dict |-> request[r].scores_dict,
                       ret |-> Bool(TRUE)]]
    /\ UNCHANGED <<matching_scores, quiet_scores, sequential>>

\* except Exception: return False; the query or the next write raises
SaveRaises(r) ==
    /\ \/ request[r].pc = "query" /\ request[r].fn = "save_matching_scores"
       \/ request[r].pc = "write" /\ request[r].next <= Len(request[r].operations)
    /\ request' = [request EXCEPT ![r] =
                      [pc |-> "returned", fn |-> request[r].fn,
                       vacante_id |-> request[r].vacante_id,
                       scores_dict |-> request[r].scores_dict,
                       ret |-> Bool(FALSE)]]
    /\ UNCHANGED <<matching_scores, quiet_scores, sequential>>

\* a request enters get_matching_scores
RequestGet(r) ==
    /\ request[r].pc = "idle"
    /\ \E vacante_id \in SharedVacantes :
          request' = [request EXCEPT ![r] =
                         [pc |-> "query", fn |-> "get_matching_scores",
                          vacante_id |-> vacante_id]]
    /\ UNCHANGED <<matching_scores, quiet_scores, sequential>>

\* docs = scores_ref.stream(), the loop over it and return scores_dict; a
\* query that raises gives {}
GetQuery(r) ==
    /\ request[r].pc = "query"
    /\ request[r].fn = "get_matching_scores"
    /\ \E fail_at \in 0..1 :
          request' = [request EXCEPT ![r] =
                         [pc |-> "returned", fn |-> request[r].fn,
                          vacante_id |-> request[r].vacante_id,
                          served |-> fail_at = 0,
                          ret |-> get_matching_scores(matching_scores,
                                                      request[r].vacante_id, fail_at)]]
    /\ UNCHANGED <<matching_scores, quiet_scores, sequential>>

\* every request that entered a call has returned: the requests end
RequestsEnd ==
    /\ InCall # {}
    /\ \A r \in InCall : request[r].pc = "returned"
    /\ request' = [r \in Requests |-> NoRequest]
    /\ quiet_scores' = matching_scores
    /\ UNCHANGED <<matching_scores, sequential>>

NextRequests ==
    \/ \E r \in Requests :
          \/ RequestSave(r)
          \/ SaveQuery(r)
          \/ SaveWrite(r)
          \/ SaveReturn(r)
          \/ SaveRaises(r)
          \/ RequestGet(r)
          \/ GetQuery(r)
    \/ RequestsEnd

SpecRequests == Init /\ [][NextRequests]_vars

-----------------------------------------------------------------------------
(* Properties                                                              *)

\* the call of fn has returned a value
Done(fn) == pc = "done" /\ call.fn = fn /\ ret.t # "raise"

\* the call of fn has raised an exception to its caller
Raised(fn) == pc = "done" /\ call.fn = fn /\ ret.t = "raise"

\* the score units.hundredths, e.g. Score(7, 40) for 7.40
Score(units, hundredths) == units * Scale + hundredths * (Scale \div 100)

EmptyOrNull(x) == x = None \/ x = List(<<>>)
NonEmptyList(x) == x.t = "list" /\ x.v # <<>>

Abs(n) == IF n < 0 THEN 0 - n ELSE n

\* x is num / den rounded to two decimals
IsRounded2(x, num, den) ==
    /\ x % (Scale \div 100) = 0
    /\ 2 * Abs(x * den - num * Scale) <= (Scale \div 100) * den

\* C1: with an empty or null required skill set, calculate_hard_skills_score
\* and calculate_soft_skills_score return exactly 10.0 whatever the possessed
\* skill set is, and the soft scorer does not touch the embedding model.
C1_VacuousTruth ==
    /\ (Done("calculate_hard_skills_score") /\ EmptyOrNull(call.vacante_skills))
          => ret.v = Score(10, 0)
    /\ (Done("calculate_soft_skills_score") /\ EmptyOrNull(call.vacante_skills))
          => /\ ret.v = Score(10, 0)
             /\ ~touched
             /\ embedding_model = call.model

C1_Witness ==
    /\ Done("calculate_soft_skills_score")
    /\ call.vacante_skills = List(<<>>)
    /\ NonEmptyList(call.alumno_skills)
    /\ call.model = None
    /\ ret.v = Score(10, 0)
    /\ ~touched

\* C2: with a non-empty required skill set and an empty or null possessed
\* one, calculate_hard_skills_score and calculate_soft_skills_score return
\* exactly 0.0.
C2_ZeroPossession ==
    (/\ pc = "done"
     /\ call.fn \in {"calculate_hard_skills_score", "calculate_soft_skills_score"}
     /\ NonEmptyList(call.vacante_skills)
     /\ EmptyOrNull(call.alumno_skills))
        => ret.v = Score(0, 0)

C2_Witness ==
    /\ Done("calculate_hard_skills_score")
    /\ NonEmptyList(call.vacante_skills)
    /\ call.alumno_skills = None
    /\ ret.v = Score(0, 0)

\* a score in [0.0, 10.0] with at most two decimals
BoundedScore(x) == x \in 0..(10 * Scale) /\ x % (Scale \div 100) = 0

TokenSet(skills) ==
    UNION {Range(preprocess_text(skills.v[i])) : i \in 1..Len(skills.v)}

\* C4: when the flattened required token set R and possessed token set P are
\* both non-empty, calculate_hard_skills_score returns
\* round((|R cap P| / |R| * 0.6 + |R cap P| / |R cup P| * 0.4) * 10, 2).
C4_LexicalFormula ==
    (/\ Done("calculate_hard_skills_score")
     /\ NonEmptyList(call.vacante_skills)
     /\ NonEmptyList(call.alumno_skills))
        => LET R == TokenSet(call.vacante_skills)
               P == TokenSet(call.alumno_skills)
               both   == Cardinality(R \cap P)
               either == Cardinality(R \cup P)
           IN  (R # {} /\ P # {})
                  => IsRounded2(ret.v,
                                both * either * 6 + both * Cardinality(R) * 4,
                                Cardinality(R) * either)

C4_Witness ==
    /\ Done("calculate_hard_skills_score")
    /\ NonEmptyList(call.vacante_skills)
    /\ NonEmptyList(call.alumno_skills)
    /\ Cardinality(TokenSet(call.vacante_skills)) = 2
    /\ Cardinality(TokenSet(call.alumno_skills)) = 2
    /\ ret.v = Score(4, 33)

\* the posting's habilidadesBlandas is absent, null or empty
NoSoftRequirement(vacante_data) ==
    \/ "habilidadesBlandas" \notin DOMAIN vacante_data.v
    \/ EmptyOrNull(vacante_data.v.habilidadesBlandas)

\* C5: when the posting's habilidadesBlandas is absent, null or empty,
\* calculate_matching_score returns soft_skills_score 10.0 and a final_score
\* equal to hard_skills_score, and the semantic scorer is not invoked.
C5_ComposerWithoutSoft ==
    (Done("calculate_matching_score") /\ NoSoftRequirement(call.vacante_data))
        => /\ ret.v.soft_skills_score = Score(10, 0)
           /\ ret.v.final_score = ret.v.hard_skills_score
           /\ ~soft_invoked
           /\ ~touched
           /\ embedding_model = call.model

C5_Witness ==
    /\ Done("calculate_matching_score")
    /\ "habilidadesBlandas" \notin DOMAIN call.vacante_data.v
    /\ Truthy(Get(call.alumno_data, "habilidades_blandas", None))
    /\ ret.v.hard_skills_score = Score(4, 33)
    /\ ret.v.final_score = Score(4, 33)
    /\ ret.v.soft_skills_score = Score(10, 0)

\* C6: when the posting requires at least one soft skill, final_score is
\* round(hard * 0.8 + soft * 0.2, 2) for the hard_skills_score and
\* soft_skills_score of the same result; hard 8.0 and soft 5.0 give 7.40.
C6_ComposerWithSoft ==
    (Done("calculate_matching_score") /\ ~NoSoftRequirement(call.vacante_data))
        => /\ soft_invoked
           /\ ret.v.final_score % (Scale \div 100) = 0
           /\ 2 * Abs(10 * ret.v.final_score
                        - (8 * ret.v.hard_skills_score + 2 * ret.v.soft_skills_score))
                 <= 10 * (Scale \div 100)
           /\ (/\ ret.v.hard_skills_score = Score(8, 0)
               /\ ret.v.soft_skills_score = Score(5, 0))
                 => ret.v.final_score = Score(7, 40)

C6_Witness ==
    /\ Done("calculate_matching_score")
    /\ ~NoSoftRequirement(call.vacante_data)
    /\ ret.v.hard_skills_score = Score(8, 0)
    /\ ret.v.soft_skills_score = Score(5, 0)
    /\ ret.v.final_score = Score(7, 40)

\* C7: the list returned by match_vacante_with_alumnos is in descending order
\* of final_score.
C7_RankingOrder ==
    Done("match_vacante_with_alumnos")
        => \A i, j \in 1..Len(ret.v) :
              i < j => ret.v[i].final_score >= ret.v[j].final_score

C7_Witness ==
    /\ Done("match_vacante_with_alumnos")
    /\ Len(ret.v) = 2
    /\ ret.v[1].alumno_id = Str("a2")
    /\ ret.v[2].alumno_id = Str("a1")
    /\ ret.v[1].final_score > ret.v[2].final_score

\* the position in the input of the candidate with identifier id
InputPosition(alumnos_list, id) ==
    CHOOSE p \in 1..Len(alumnos_list) : Get(alumnos_list[p], "doc_id", None) = id

\* C8: candidates of equal final_score come out of match_vacante_with_alumnos
\* in the order they had in the input; scores [7.0, 9.0, 9.0] of a, b, c give
\* the order b, c, a.
C8_RankingStability ==
    Done("match_vacante_with_alumnos")
        => \A i, j \in 1..Len(ret.v) :
              (i < j /\ ret.v[i].final_score = ret.v[j].final_score)
                 => InputPosition(call.alumnos_list, ret.v[i].alumno_id)
                       < InputPosition(call.alumnos_list, ret.v[j].alumno_id)

C8_Witness ==
    /\ Done("match_vacante_with_alumnos")
    /\ Len(call.alumnos_list) = 3
    /\ Len(ret.v) = 3
    /\ ret.v[1].alumno_id = Str("a2")
    /\ ret.v[2].alumno_id = Str("a3")
    /\ ret.v[3].alumno_id = Str("a1")
    /\ ret.v[1].final_score = ret.v[2].final_score
    /\ ret.v[2].final_score > ret.v[3].final_score

\* the candidate has an identifier
HasId(alumno) == Get(alumno, "doc_id", None) \notin {None, Str("")}

\* the three scores of entry are those of result
SameScores(entry, result) ==
    /\ entry.hard_skills_score = result.hard_skills_score
    /\ entry.soft_skills_score = result.soft_skills_score
    /\ entry.final_score = result.final_score

\* The scores calculate_matching_score gives alumno_data in environment env.
\* The handle is the one the batch call found or the one it left: a batch
\* that loads the model loads it once, for the entries that follow.
ScoresAlone(alumno_data, env) ==
    {calculate_matching_score(call.vacante_data, alumno_data, m, env).scores :
        m \in {call.model, embedding_model}}

\* C9: match_vacante_with_alumnos returns one entry for each candidate with
\* an identifier and none for a candidate without; the scores of an entry are
\* those calculate_matching_score gives that candidate, whatever the other
\* candidates of the batch and their order.
C9_OneEntryPerAlumno ==
    Done("match_vacante_with_alumnos")
        => LET alumnos_list == call.alumnos_list
               kept == {p \in 1..Len(alumnos_list) : HasId(alumnos_list[p])}
               entries(p) == {i \in 1..Len(ret.v) :
                                 ret.v[i].alumno_id = alumnos_list[p].v.doc_id}
           IN  /\ Len(ret.v) = Cardinality(kept)
               /\ \A p \in kept :
                     /\ Cardinality(entries(p)) = 1
                     /\ \A i \in entries(p) :
                           \E scores \in ScoresAlone(alumnos_list[p], call.envs[p]) :
                              SameScores(ret.v[i], scores)

C9_Witness ==
    /\ Done("match_vacante_with_alumnos")
    /\ Len(call.alumnos_list) = 3
    /\ ~HasId(call.alumnos_list[2])
    /\ Len(ret.v) = 2
    /\ touched
    /\ ret.v[1].alumno_id = Str("a3")
    /\ ret.v[2].alumno_id = Str("a1")
    /\ ret.v[1].final_score > ret.v[2].final_score

\* the candidate identifier an application refers to
IdOf(postulacion) ==
    LET alumno_ref == postulacion.v.alumnoID
    IN  IF alumno_ref.t = "ref" THEN alumno_ref.id ELSE alumno_ref.v

\* C10: the key set of the mapping match_vacante_with_postulantes returns is
\* the set of resolved candidate identifiers of the applications whose
\* identifier is a key of alumnos_dict, each mapped to the scores
\* calculate_matching_score gives that candidate.
C10_KeysAreTheKnownIds ==
    Done("match_vacante_with_postulantes")
        => LET postulaciones_list == call.postulaciones_list
               known == {p \in 1..Len(postulaciones_list) :
                            /\ "alumnoID" \in DOMAIN postulaciones_list[p].v
                            /\ IdOf(postulaciones_list[p])
                                  \in DOMAIN call.alumnos_dict}
           IN  /\ DOMAIN ret.v = {IdOf(postulaciones_list[p]) : p \in known}
               /\ \A p \in known :
                     LET id == IdOf(postulaciones_list[p])
                     IN  \E q \in known :
                            /\ IdOf(postulaciones_list[q]) = id
                            /\ ret.v[id] \in ScoresAlone(call.alumnos_dict[id],
                                                       call.envs[q])

\* obtaining the model or encoding the labels fails in the call of the soft
\* scorer
SemanticFails ==
    \/ call.model = None /\ call.env.outcome = "load_fail"
    \/ call.env.outcome = "encode_fail"
    \/ \E label \in Range(call.vacante_skills.v) \cup Range(call.alumno_skills.v) :
          label.t # "str"

\* C11: when obtaining the embedding model or encoding fails for non-empty
\* required and possessed sets, calculate_soft_skills_score returns what
\* calculate_hard_skills_score returns for the same two sets, and raises
\* nothing.
C11_SemanticFallback ==
    (/\ Done("calculate_soft_skills_score")
     /\ NonEmptyList(call.vacante_skills)
     /\ NonEmptyList(call.alumno_skills)
     /\ SemanticFails)
        => /\ touched
           /\ ret = Float(calculate_hard_skills_score(call.vacante_skills,
                                                      call.alumno_skills))

C11_Witness ==
    /\ Done("calculate_soft_skills_score")
    /\ call.model # None
    /\ call.env.outcome = "encode_fail"
    /\ Len(call.vacante_skills.v) = 2
    /\ Len(call.alumno_skills.v) = 1
    /\ ret = Float(Score(3, 33))
    /\ embedding_model = call.model

\* C12: two calls of calculate_matching_score with the same posting and
\* candidate return the same MatchResult, always when the posting requires no
\* soft skill (the lexical path) and, when it does, if both calls score with
\* the embedding model (loaded once, its weights frozen), whatever scoring
\* call is made in between.
C12_Idempotence ==
    Done("calculate_matching_score twice")
        => /\ NoSoftRequirement(call.vacante_data) => ret.v[1] = ret.v[2]
           /\ (call.env.outcome = "ok" /\ call.env2.outcome = "ok")
                 => ret.v[1] = ret.v[2]

C12_Witness ==
    /\ Done("calculate_matching_score twice")
    /\ ~NoSoftRequirement(call.vacante_data)
    /\ call.between = "soft"
    /\ call.model = None
    /\ call.env.outcome = "ok"
    /\ call.env2.outcome = "ok"
    /\ ret.v[1] = ret.v[2]
    /\ ret.v[1].v.soft_skills_score = Score(5, 0)
    /\ call.alumno_data = BatchAlumno("B", Str("a1"))
    /\ ret.v[1].v.final_score = Score(7, 40)

\* C13: the embedding model is constructed at most once per process, for
\* every interleaving of get_embedding_model calls made from concurrent
\* threads.
C13_InitializeOnce == constructions <= 1

\* a skill field as the claims on input shapes allow it: missing, null, a
\* string or a list
SkillFieldShape(record, key) ==
    key \in DOMAIN record.v => record.v[key].t \in {"none", "str", "list"}

\* a posting and a candidate that are records with such skill fields
RecordShapes(vacante_data, alumno_data) ==
    /\ vacante_data.t = "dict"
    /\ alumno_data.t = "dict"
    /\ SkillFieldShape(vacante_data, "habilidadesDuras")
    /\ SkillFieldShape(vacante_data, "habilidadesBlandas")
    /\ SkillFieldShape(alumno_data, "habilidades_tecnicas")
    /\ SkillFieldShape(alumno_data, "habilidades_blandas")

\* the skill list with the empty text in the place of every label that is
\* no text
EmptyForNonText(skills) ==
    [i \in 1..Len(skills) |-> IF skills[i].t = "str" THEN skills[i] ELSE Str("")]

\* the call has one of the malformed or missing inputs: a null or list skill
\* field with any label, any argument of preprocess_text, a candidate list
\* with candidates without identifier
RecoverableInput ==
    \/ call.fn \in {"preprocess_text", "calculate_hard_skills_score",
                    "match_vacante_with_postulantes"}
    \/ /\ call.fn = "calculate_matching_score"
       /\ RecordShapes(call.vacante_data, call.alumno_data)
    \/ /\ call.fn = "match_vacante_with_alumnos"
       /\ \A i \in 1..Len(call.alumnos_list) :
             RecordShapes(call.vacante_data, call.alumnos_list[i])

\* C14: malformed or missing input is recovered locally.  A value that is no
\* text gives preprocess_text no token; a label that is no text scores as the
\* empty text does; a null skill list is an empty one (10.0 when it is
\* the posting's, 0.0 when it is the candidate's and the posting requires
\* something); a candidate without identifier is skipped; and none of these
\* makes the call raise.
C14_MalformedInputRecovered ==
    /\ (pc = "done" /\ RecoverableInput) => ret.t # "raise"
    /\ (Done("preprocess_text") /\ call.text.t # "str") => ret = List(<<>>)
    /\ (Done("calculate_hard_skills_score")
          /\ call.vacante_skills # None /\ call.alumno_skills # None)
          => ret = Float(calculate_hard_skills_score(
                             List(EmptyForNonText(call.vacante_skills.v)),
                             List(EmptyForNonText(call.alumno_skills.v))))
    /\ (Done("calculate_matching_score")
          /\ RecordShapes(call.vacante_data, call.alumno_data))
          => /\ Get(call.vacante_data, "habilidadesDuras", Absent) = None
                  => ret.v.hard_skills_score = Score(10, 0)
             /\ Get(call.vacante_data, "habilidadesBlandas", Absent) = None
                  => ret.v.soft_skills_score = Score(10, 0)
             /\ (/\ NonEmptyList(Get(call.vacante_data, "habilidadesDuras", Absent))
                 /\ Get(call.alumno_data, "habilidades_tecnicas", Absent) = None)
                  => ret.v.hard_skills_score = Score(0, 0)
             /\ (/\ NonEmptyList(Get(call.vacante_data, "habilidadesBlandas", Absent))
                 /\ Get(call.alumno_data, "habilidades_blandas", Absent) = None)
                  => ret.v.soft_skills_score = Score(0, 0)
    /\ Done("match_vacante_with_alumnos")
          => /\ \A i \in 1..Len(ret.v) : Truthy(ret.v[i].alumno_id)
             /\ Len(ret.v) = Cardinality({i \in 1..Len(call.alumnos_list) :
                                              HasId(call.alumnos_list[i])})

\* a candidate whose technical skills hold a number as a label and whose
\* soft skills are null is scored against a posting that requires both
C14_Witness ==
    /\ Done("calculate_matching_score")
    /\ call.alumno_data = Record([habilidades_tecnicas |-> List(<<PyInt(5), Str("sql")>>),
                                  habilidades_blandas |-> None])
    /\ Get(call.vacante_data, "habilidadesDuras", Absent) = List(<<Str("SQL")>>)
    /\ Get(call.vacante_data, "habilidadesBlandas", Absent) = List(<<Str("Liderazgo")>>)
    /\ ret = Dict([hard_skills_score |-> Score(10, 0),
                   soft_skills_score |-> Score(0, 0),
                   final_score |-> Score(8, 0)])

\* C15: for every shape of posting record, candidate record, application
\* list and candidate mapping, calculate_matching_score,
\* match_vacante_with_alumnos and match_vacante_with_postulantes return a
\* value and raise nothing to the caller.
C15_NoFatalErrors ==
    (/\ pc = "done"
     /\ call.fn \in {"calculate_matching_score", "match_vacante_with_alumnos",
                     "match_vacante_with_postulantes"})
        => ret.t # "raise"

\* every character of token is a punctuation character
PurePunctuation(token) ==
    \A i \in 1..Len(token) :
        InStr(Char(token, i), punctuation_head) \/ InStr(Char(token, i), punctuation_tail)

\* the stems of the words that are neither pure punctuation nor stopwords,
\* in the order of the words
RECURSIVE StemsOfKeptWords(_)
StemsOfKeptWords(words) ==
    IF words = <<>> THEN <<>>
    ELSE IF PurePunctuation(Head(words)) \/ Head(words) \in stop_words
         THEN StemsOfKeptWords(Tail(words))
         ELSE <<Str(stem(Head(words)))>> \o StemsOfKeptWords(Tail(words))

\* C16: preprocess_text returns, in the original order and without
\* deduplication, the stem of every word of the lowercased text that is
\* neither pure punctuation (of any length) nor a stopword.
C16_NormalizerFilter ==
    (Done("preprocess_text") /\ call.text.t = "str")
        => ret = List(StemsOfKeptWords(word_tokenize(lower(call.text.v))))

\* a sequence of strings that are all non-empty and whitespace-trimmed
CanonicalSequence(skills) ==
    /\ skills.t = "list"
    /\ \A i \in 1..Len(skills.v) :
          /\ skills.v[i].t = "str"
          /\ skills.v[i].v # ""
          /\ strip(skills.v[i].v) = skills.v[i].v

\* the skill field arrives as a string or as a sequence of strings, or is
\* missing
StringOrSequence(record, key) ==
    key \in DOMAIN record.v
        => \/ record.v[key].t = "str"
           \/ /\ record.v[key].t = "list"
              /\ \A i \in 1..Len(record.v[key].v) : record.v[key].v[i].t = "str"

\* C17: in calculate_matching_score every skill field that arrives as a
\* comma-delimited string or as a sequence of strings reaches the scorers as
\* a sequence of non-empty, whitespace-trimmed strings.
C17_CanonicalSkillSequences ==
    (/\ Done("calculate_matching_score")
     /\ StringOrSequence(call.vacante_data, "habilidadesDuras")
     /\ StringOrSequence(call.vacante_data, "habilidadesBlandas")
     /\ StringOrSequence(call.alumno_data, "habilidades_tecnicas")
     /\ StringOrSequence(call.alumno_data, "habilidades_blandas"))
        => LET arguments == scorer_arguments(call.vacante_data, call.alumno_data) IN
           /\ CanonicalSequence(arguments.vacante_hard_skills)
           /\ CanonicalSequence(arguments.alumno_hard_skills)
           /\ soft_invoked
                => /\ CanonicalSequence(arguments.vacante_soft_skills)
                   /\ CanonicalSequence(arguments.alumno_soft_skills)

\* the encoder the call scored with: the handle it found or the one it loaded
EncoderOf(c) == IF c.model # None THEN c.model ELSE c.env.weights

\* the inner product of the embeddings of two labels (unit vectors: their
\* cosine similarity)
Similarity(encoder, required, possessed) ==
    encoder[required.v][1] * encoder[possessed.v][1]
        + encoder[required.v][2] * encoder[possessed.v][2]

\* the similarity of the possessed label closest to the required one
BestMatch(encoder, required, possessed_skills) ==
    CHOOSE best \in {Similarity(encoder, required, p) : p \in Range(possessed_skills)} :
        \A p \in Range(possessed_skills) : Similarity(encoder, required, p) <= best

RECURSIVE SumOfBestMatches(_, _, _)
SumOfBestMatches(encoder, required_skills, possessed_skills) ==
    IF required_skills = <<>> THEN 0
    ELSE BestMatch(encoder, Head(required_skills), possessed_skills)
            + SumOfBestMatches(encoder, Tail(required_skills), possessed_skills)

\* C18: for non-empty required and possessed sets and a successful encoding,
\* calculate_soft_skills_score returns round(((avg + 1) / 2) * 10, 2), where
\* avg is the mean over the required labels of the maximum cosine similarity
\* with a possessed label.
C18_SemanticBestMatch ==
    (/\ Done("calculate_soft_skills_score")
     /\ NonEmptyList(call.vacante_skills)
     /\ NonEmptyList(call.alumno_skills)
     /\ ~SemanticFails)
        => LET n   == Len(call.vacante_skills.v)
               sum == SumOfBestMatches(EncoderOf(call), call.vacante_skills.v,
                                       call.alumno_skills.v)
           IN  \* (sum / n + 1) / 2 * 10 = 10 * (sum + n) / (2 * n)
               IsRounded2(ret.v, 10 * (sum + n), 2 * n)

\* one required label, two possessed labels of similarity -1 and 1 with it:
\* the best match alone counts
C18_Witness ==
    /\ Done("calculate_soft_skills_score")
    /\ call.env.outcome = "ok"
    /\ call.vacante_skills = List(<<Str("Liderazgo")>>)
    /\ call.alumno_skills = List(<<Str("Trabajo en equipo"), Str("Liderazgo")>>)
    /\ EncoderOf(call)["Trabajo en equipo"] = <<-1, 0>>
    /\ ret = Float(Score(10, 0))

\* the value of field key of the record, the sentinel "N/A" when the record
\* has no such field
ValueOrSentinel(record, key) ==
    IF key \in DOMAIN record.v THEN record.v[key] ELSE Str("N/A")

\* C19: every entry of match_vacante_with_alumnos carries the identifier of
\* one candidate of the list, and its name and contact are that candidate's
\* values when the record has them and "N/A" when it has not.
C19_SentinelForAbsent ==
    Done("match_vacante_with_alumnos")
        => \A k \in 1..Len(ret.v) :
              \E i \in 1..Len(call.alumnos_list) :
                 LET alumno == call.alumnos_list[i] IN
                 /\ HasId(alumno)
                 /\ ret.v[k].alumno_id = alumno.v.doc_id
                 /\ ret.v[k].alumno_nombre = ValueOrSentinel(alumno, "nombre")
                 /\ ret.v[k].alumno_correo = ValueOrSentinel(alumno, "correo")

\* a ranking with a candidate that has a name and a contact and one whose
\* name is null and whose contact is missing
C19_Witness ==
    /\ Done("match_vacante_with_alumnos")
    /\ Len(ret.v) = 2
    /\ \E k \in 1..2 :
          /\ ret.v[k].alumno_nombre = Str("Ana")
          /\ ret.v[k].alumno_correo = Str("ana@unrc.mx")
    /\ \E k \in 1..2 :
          /\ ret.v[k].alumno_id = Str("a2")
          /\ ret.v[k].alumno_nombre = None
          /\ ret.v[k].alumno_correo = Str("N/A")

\* a call of the composer or of a batch function has returned or raised
ComposerOrBatchCall ==
    /\ pc = "done"
    /\ call.fn \in {"calculate_matching_score", "match_vacante_with_alumnos",
                    "match_vacante_with_postulantes"}

WithDirectId(postulacion) ==
    IF "alumnoID" \in DOMAIN postulacion.v /\ postulacion.v.alumnoID.t = "ref"
    THEN Record([alumnoID |-> Str(postulacion.v.alumnoID.id)])
    ELSE postulacion

\* C22: in match_vacante_with_postulantes an application with a reference
\* object of id s and an application with the direct identifier s resolve to
\* the same key, the same candidate and the same entry: the mapping returned
\* is the one returned when every reference is given as its direct
\* identifier.  An application without candidate reference adds no entry.
C22_ReferenceResolution ==
    Done("match_vacante_with_postulantes")
        => /\ ret = Dict(match_vacante_with_postulantes(
                             call.vacante_data,
                             [p \in 1..Len(call.postulaciones_list) |->
                                 WithDirectId(call.postulaciones_list[p])],
                             call.alumnos_dict, call.model, call.envs).results)
           /\ \A k \in DOMAIN ret.v :
                 \E p \in 1..Len(call.postulaciones_list) :
                    /\ "alumnoID" \in DOMAIN call.postulaciones_list[p].v
                    /\ IdOf(call.postulaciones_list[p]) = k

\* an application with a reference object and one without candidate
\* reference: one entry, under the id of the reference
C22_Witness ==
    /\ Done("match_vacante_with_postulantes")
    /\ call.postulaciones_list = <<Record([alumnoID |-> Ref("a1")]),
                                   Record([alumnoID |-> Absent])>>
    /\ DOMAIN ret.v = {"a1"}

\* the skill lists with the flattened token set of skills
SameTokenSet(skills) ==
    {other \in HardSkillSets \ {None} : TokenSet(other) = TokenSet(skills)}

\* C23 as stated: calculate_hard_skills_score depends only on the flattened
\* token sets R and P: any two inputs with equal R and equal P give the same
\* score.
C23_DependsOnlyOnTokenSets ==
    (/\ Done("calculate_hard_skills_score")
     /\ call.vacante_skills # None
     /\ call.alumno_skills # None)
        => \A vacante_skills \in SameTokenSet(call.vacante_skills) :
              \A alumno_skills \in SameTokenSet(call.alumno_skills) :
                 ret = Float(calculate_hard_skills_score(vacante_skills,
                                                         alumno_skills))

\* the non-empty skill lists of the calls
NonEmptyHardLists == {skills \in HardSkillSets : NonEmptyList(skills)}

\* one non-empty skill list for every flattened token set, the same for all
\* lists with that token set
RepresentativeOf ==
    [tokens \in {TokenSet(skills) : skills \in NonEmptyHardLists} |->
        CHOOSE skills \in NonEmptyHardLists : TokenSet(skills) = tokens]

\* C23, amended: for non-empty skill lists on both sides,
\* calculate_hard_skills_score depends only on the flattened token sets R and
\* P: two inputs with non-empty lists, equal R and equal P give the same
\* score, however the tokens are grouped into labels, ordered, repeated or
\* cased.  Every such input scores as the one made of the representatives
\* of its two token sets, hence as every other input with these token sets.
C23_NonEmptyListsDependOnTokenSets ==
    (/\ Done("calculate_hard_skills_score")
     /\ NonEmptyList(call.vacante_skills)
     /\ NonEmptyList(call.alumno_skills))
        => ret = Float(calculate_hard_skills_score(
                           RepresentativeOf[TokenSet(call.vacante_skills)],
                           RepresentativeOf[TokenSet(call.alumno_skills)]))

\* a required list that repeats a label and one whose second label repeats,
\* in another case, a word of the first
C23_Witness ==
    /\ Done("calculate_hard_skills_score")
    /\ call.vacante_skills = List(<<Str("APIs de sql"), Str("SQL")>>)
    /\ call.alumno_skills = List(<<Str("SQL"), Str("SQL")>>)
    /\ TokenSet(call.vacante_skills) = {"api", "sql"}
    /\ RepresentativeOf[{"api", "sql"}] # call.vacante_skills
    /\ RepresentativeOf[{"sql"}] # call.alumno_skills
    /\ ret = Float(Score(5, 0))

\* the posting requires soft skills and the candidate has some: with these
\* records calculate_matching_score makes a soft-score call that passes both
\* empty-set checks
PassesBothChecks(vacante_data, alumno_data) ==
    /\ vacante_data.t = "dict"
    /\ alumno_data.t = "dict"
    /\ LET required  == Get(vacante_data, "habilidadesBlandas", None)
           possessed == Get(alumno_data, "habilidades_blandas", None)
       IN  /\ NonEmptyList(required)
           /\ \/ NonEmptyList(possessed)
              \/ possessed.t = "str" /\ NonEmptyList(split_and_strip(possessed.v))

\* call c makes a soft-score call that passes both empty-set checks
MakesSemanticCall(c) ==
    CASE c.fn = "calculate_soft_skills_score" ->
            NonEmptyList(c.vacante_skills) /\ NonEmptyList(c.alumno_skills)
      [] c.fn = "calculate_matching_score" ->
            PassesBothChecks(c.vacante_data, c.alumno_data)
      [] c.fn = "calculate_matching_score twice" ->
            c.between = "soft" \/ PassesBothChecks(c.vacante_data, c.alumno_data)
      [] c.fn = "match_vacante_with_alumnos" ->
            \E i \in 1..Len(c.alumnos_list) :
               PassesBothChecks(c.vacante_data, c.alumnos_list[i])
      [] c.fn = "match_vacante_with_postulantes" ->
            \E id \in DOMAIN c.alumnos_dict :
               PassesBothChecks(c.vacante_data, c.alumnos_dict[id])
      [] OTHER -> FALSE

\* C24: in a sequential run the embedding model is constructed only by a call
\* that makes a soft-score call passing both empty-set checks; once the
\* handle is loaded no step changes it and no step constructs a model again.
C24_LazyReadOnlyHandle ==
    [][/\ constructions' # constructions => MakesSemanticCall(call')
       /\ embedding_model' # embedding_model => constructions' = constructions + 1
       /\ embedding_model # None
            => /\ embedding_model' = embedding_model
               /\ constructions' = constructions]_vars

\* a soft-score call that reached get_embedding_model when the handle was
\* loaded: it got the loaded instance and nothing was constructed
C24_Witness ==
    /\ Done("calculate_soft_skills_score")
    /\ call.model # None
    /\ touched
    /\ embedding_model = call.model
    /\ constructions = 1

\* the text before the first comma of s, and the text after it ("" without)
BeforeComma(s) ==
    IF s = "" \/ Head(s) = "," THEN ""
    ELSE SubSeq(s, 1, CHOOSE n \in 1..Len(s) :
                         /\ \A i \in 1..n : Char(s, i) # ","
                         /\ n = Len(s) \/ Char(s, n + 1) = ",")
AfterComma(s) == SubSeq(s, Len(BeforeComma(s)) + 2, Len(s))

\* text without the blanks at its two ends
Trimmed(text) ==
    IF \A i \in 1..Len(text) : Char(text, i) = " " THEN ""
    ELSE LET first == CHOOSE i \in 1..Len(text) :
                         Char(text, i) # " " /\ \A j \in 1..(i - 1) : Char(text, j) = " "
             last  == CHOOSE i \in 1..Len(text) :
                         Char(text, i) # " "
                            /\ \A j \in (i + 1)..Len(text) : Char(text, j) = " "
         IN  SubSeq(text, first, last)

\* the comma-separated segments of s, trimmed, the empty ones dropped, in
\* their order
RECURSIVE TrimmedSegments(_)
TrimmedSegments(s) ==
    LET segment == Trimmed(BeforeComma(s))
        rest    == IF Len(BeforeComma(s)) = Len(s) THEN <<>>
                   ELSE TrimmedSegments(AfterComma(s))
    IN  IF segment = "" THEN rest ELSE <<Str(segment)>> \o rest

\* the candidate record with its fields that are strings given as the
\* sequences of their segments
WithSequences(alumno_data) ==
    Dict([key \in DOMAIN alumno_data.v |->
             IF alumno_data.v[key].t = "str"
                   /\ key \in {"habilidades_tecnicas", "habilidades_blandas"}
             THEN List(TrimmedSegments(alumno_data.v[key].v))
             ELSE alumno_data.v[key]])

\* C25: a candidate skill field given as a comma-delimited string reaches the
\* scorers as the sequence of its comma-separated segments, trimmed, without
\* the empty ones and in their order, and the MatchResult is the one of the
\* record that has this sequence in the place of the string.
C25_StringListEquivalence ==
    (/\ Done("calculate_matching_score")
     /\ \E key \in {"habilidades_tecnicas", "habilidades_blandas"} :
           key \in DOMAIN call.alumno_data.v /\ call.alumno_data.v[key].t = "str")
        => LET arguments == scorer_arguments(call.vacante_data, call.alumno_data)
               sequences == WithSequences(call.alumno_data)
           IN  /\ arguments.alumno_hard_skills
                    = Get(sequences, "habilidades_tecnicas", List(<<>>))
               /\ arguments.alumno_soft_skills
                    = Get(sequences, "habilidades_blandas", List(<<>>))
               /\ ret = Dict(calculate_matching_score(call.vacante_data, sequences,
                                                      call.model, call.env).scores)

\* a candidate whose technical skills are " sql , Git,, ": the segments are
\* sql and Git
C25_Witness ==
    /\ Done("calculate_matching_score")
    /\ Get(call.alumno_data, "habilidades_tecnicas", None) = Str(" sql , Git,, ")
    /\ scorer_arguments(call.vacante_data, call.alumno_data).alumno_hard_skills
          = List(<<Str("sql"), Str("Git")>>)
    /\ Get(call.vacante_data, "habilidadesDuras", None) = List(<<Str("SQL"), Str("Git")>>)
    /\ ret.v.hard_skills_score = Score(10, 0)

\* labels of one token each
OneTokenLabels == {label \in HardLabels : Cardinality(TokenSet(List(<<label>>))) = 1}

\* the score of the call's posting for the call's candidate with one more
\* label
ScoreWithOneMore(label) ==
    calculate_hard_skills_score(call.vacante_skills,
                                List(Append(call.alumno_skills.v, label)))

\* C26: for a non-empty required token set R, one more candidate token that
\* is in R and was not possessed never lowers calculate_hard_skills_score,
\* one more token that is not in R never raises it; equal non-empty token
\* sets score 10.0 and disjoint non-empty token sets score 0.0.
C26_Monotonicity ==
    (/\ Done("calculate_hard_skills_score")
     /\ NonEmptyList(call.vacante_skills)
     /\ call.alumno_skills # None
     /\ TokenSet(call.vacante_skills) # {})
        => LET R == TokenSet(call.vacante_skills)
               P == TokenSet(call.alumno_skills)
           IN  /\ \A label \in OneTokenLabels :
                     LET token == TokenSet(List(<<label>>)) IN
                     /\ (token \subseteq R /\ token \cap P = {})
                           => ScoreWithOneMore(label) >= ret.v
                     /\ (token \cap R = {} /\ token \cap P = {})
                           => ScoreWithOneMore(label) <= ret.v
               /\ R = P => ret = Float(Score(10, 0))
               /\ (P # {} /\ R \cap P = {}) => ret = Float(Score(0, 0))

\* SQL and Git required, SQL possessed: 5.0; with Git as well the candidate
\* has exactly the required tokens
C26_Witness ==
    /\ Done("calculate_hard_skills_score")
    /\ call.vacante_skills = List(<<Str("SQL"), Str("Git")>>)
    /\ call.alumno_skills = List(<<Str("SQL")>>)
    /\ ret = Float(Score(5, 0))
    /\ ScoreWithOneMore(Str("Git")) = Score(10, 0)

\* the soft skill lists calculate_matching_score passes on for the records
\* of call c
SoftRequired(c) == scorer_arguments(c.vacante_data, c.alumno_data).vacante_soft_skills
SoftPossessed(c) == scorer_arguments(c.vacante_data, c.alumno_data).alumno_soft_skills

\* C27: a failed construction of the embedding model is not sticky.  The
\* soft-score call in which the constructor raises leaves the handle None
\* and returns the lexical fallback; the next call with the same inputs
\* attempts the construction again, and when it succeeds that call returns
\* the embedding value and leaves the handle loaded.  Once a call has loaded
\* the handle, the next call constructs nothing.
C27_FailedInitNotSticky ==
    /\ (/\ Done("calculate_soft_skills_score")
        /\ NonEmptyList(call.vacante_skills)
        /\ NonEmptyList(call.alumno_skills)
        /\ call.model = None
        /\ call.env.outcome = "load_fail")
          => /\ embedding_model = None
             /\ constructions = 0
             /\ ret = Float(calculate_hard_skills_score(call.vacante_skills,
                                                        call.alumno_skills))
    /\ (/\ Done("calculate_matching_score twice")
        /\ PassesBothChecks(call.vacante_data, call.alumno_data)
        /\ call.between = "none"
        /\ call.model = None)
          => /\ (call.env.outcome = "load_fail" /\ call.env2.outcome = "ok")
                   => LET n   == Len(SoftRequired(call).v)
                          sum == SumOfBestMatches(call.env2.weights,
                                                  SoftRequired(call).v,
                                                  SoftPossessed(call).v)
                      IN  /\ ret.v[1].v.soft_skills_score
                               = calculate_hard_skills_score(SoftRequired(call),
                                                             SoftPossessed(call))
                          /\ IsRounded2(ret.v[2].v.soft_skills_score,
                                        10 * (sum + n), 2 * n)
                          /\ embedding_model = call.env2.weights
                          /\ constructions = 1
             /\ call.env.outcome # "load_fail"
                   => /\ call.env2.outcome # "load_fail"
                      /\ embedding_model = call.env.weights
                      /\ constructions = 1

\* the same posting and candidate scored twice: the constructor raises in
\* the first call (lexical fallback 0.0) and returns in the second
\* (embedding value 5.0)
C27_Witness ==
    /\ Done("calculate_matching_score twice")
    /\ call.between = "none"
    /\ call.model = None
    /\ call.env.outcome = "load_fail"
    /\ call.env2.outcome = "ok"
    /\ ret.v[1].v.soft_skills_score = Score(0, 0)
    /\ ret.v[2].v.soft_skills_score = Score(5, 0)
    /\ embedding_model = call.env2.weights

\* the vacante ids that have a document
StoredVacantes == {id \in VacanteIds : vacantes[id] # Absent}

\* the caller's form asks for a soft skill
AsksForSoftSkills(vacante_data) ==
    vacante_data # None /\ "habilidadesBlandas" \in DOMAIN vacante_data.v

\* C28: after any sequence of create_vacante and update_vacante calls, also
\* with forms that carry habilidadesBlandas, no stored vacante has a
\* habilidadesBlandas field; the posting calculate_and_save_single_score
\* fetches with get_vacante_by_id has none either, so the scores it computes
\* have soft_skills_score 10.0 and final_score equal to hard_skills_score,
\* the semantic scorer is not invoked, and these scores are what it stores.
C28_NoStoredSoftRequirement ==
    /\ \A id \in StoredVacantes : "habilidadesBlandas" \notin DOMAIN vacantes[id].v
    /\ (pc = "done" /\ call.fn = "calculate_and_save_single_score")
          => /\ call.vacante_data # None
                  => /\ call.vacante_data
                            = get_vacante_by_id(vacantes, call.vacante_id, 0)
                     /\ NoSoftRequirement(call.vacante_data)
             /\ ~soft_invoked
             /\ ~touched
             /\ ret # None
                  => /\ ret.v.soft_skills_score = Score(10, 0)
                     /\ ret.v.final_score = ret.v.hard_skills_score
                     /\ matching_scores[call.vacante_id][call.alumno_id]
                            = score_document(ret)

\* a posting created from a form with a soft-skill requirement and updated
\* with another such form is scored 10.0 for soft skills: candidate a2
\* ("APIs de SQL") on the required [Git, SQL] has hard and final score 4.33
C28_Witness ==
    /\ pc = "done" /\ call.fn = "calculate_and_save_single_score"
    /\ call.alumno_id = "a2"
    /\ call.vacante_data # None
    /\ call.vacante_data.v.titulo = Str("Analista")
    /\ call.vacante_data.v.habilidadesDuras = List(<<Str("Git"), Str("SQL")>>)
    /\ Truthy(Get(alumnos_documents["a2"], "habilidades_blandas", None))
    /\ ret # None
    /\ ret.v.soft_skills_score = Score(10, 0)
    /\ ret.v.hard_skills_score = Score(4, 33)
    /\ ret.v.final_score = Score(4, 33)

\* the keys of a scores_dict given by its items
KeysOf(scores_dict) == {scores_dict.v[i].key : i \in 1..Len(scores_dict.v)}

\* the three scores of a stored or passed score record
ScoresOf(score_data) ==
    <<score_data.v.hard_skills_score, score_data.v.soft_skills_score,
      score_data.v.final_score>>

\* C29: when save_matching_scores(v, d) has returned True, a following
\* get_matching_scores(v) that the store serves returns a mapping whose keys
\* are exactly the keys of d, whatever was stored for v before (entries
\* written by earlier saves or by calculate_and_save_single_score), each
\* entry with the hard_skills_score, soft_skills_score and final_score of d;
\* the scores stored for the other vacantes are as before the call.
C29_ReplaceAndReadBack ==
    (pc = "done" /\ call.fn = "save_matching_scores" /\ ret = Bool(TRUE))
        => LET d == call.scores_dict
               got == get_matching_scores(matching_scores, call.vacante_id, 0)
           IN  /\ d # None
               /\ DOMAIN got.v = KeysOf(d)
               /\ \A i \in 1..Len(d.v) :
                      ScoresOf(got.v[d.v[i].key]) = ScoresOf(d.v[i].score_data)
               /\ \A other \in VacanteIds \ {call.vacante_id} :
                      matching_scores[other] = call.before[other]

\* v1 held a score for a1 that calculate_and_save_single_score wrote (final
\* 10.0) and one for a2; saving {a2: ...} leaves a2 alone, with the new
\* score, while v2 keeps its scores
C29_Witness ==
    /\ pc = "done" /\ call.fn = "save_matching_scores" /\ ret = Bool(TRUE)
    /\ call.vacante_id = "v1"
    /\ DOMAIN call.before["v1"] = {"a1", "a2"}
    /\ call.before["v1"]["a1"].v.final_score = Score(10, 0)
    /\ call.before["v1"]["a2"].v.final_score = Score(4, 33)
    /\ call.scores_dict = List(<<Item("a2", MatchResult(250, 1000, 250))>>)
    /\ DOMAIN matching_scores["v1"] = {"a2"}
    /\ matching_scores["v1"]["a2"].v.final_score = Score(2, 50)
    /\ DOMAIN matching_scores["v2"] = {"a1"}

\* the requests that are in, or have returned from, save_matching_scores for
\* the vacante v since the requests last ended
SavesOn(v) ==
    {r \in InCall : request[r].fn = "save_matching_scores"
                       /\ request[r].vacante_id = v}

\* the request has returned from save_matching_scores with True
SavedTrue(r) == request[r].pc = "returned" /\ request[r].ret = Bool(TRUE)

\* the documents a complete save of scores_dict leaves
CompleteSet(scores_dict) ==
    [id \in KeysOf(scores_dict) |->
        score_document(
            (CHOOSE item \in Range(scores_dict.v) : item.key = id).score_data)]

\* C30, first part: when two save_matching_scores calls for the same
\* vacante overlap or follow each other and both have returned True, with no
\* third save for it, the stored keys are the keys of one of the two
\* mappings.
C30_OneOfTheTwoKeySets ==
    \A v \in SharedVacantes : \A r1, r2 \in SavesOn(v) :
        (r1 # r2 /\ SavesOn(v) = {r1, r2} /\ SavedTrue(r1) /\ SavedTrue(r2))
            => DOMAIN matching_scores[v] \in {KeysOf(request[r1].scores_dict),
                                              KeysOf(request[r2].scores_dict)}

\* C30, second part: a get_matching_scores that the store served while
\* saves for the same vacante were running, none of which has failed,
\* returned the complete set stored before them or the complete set of one
\* of them.
C30_CompleteSetsOnly ==
    \A v \in SharedVacantes : \A g \in InCall :
        (/\ request[g].fn = "get_matching_scores"
         /\ request[g].vacante_id = v
         /\ request[g].pc = "returned"
         /\ request[g].served
         /\ \A s \in SavesOn(v) :
                request[s].pc = "returned" => request[s].ret = Bool(TRUE))
            => request[g].ret.v \in
                   {quiet_scores[v]}
                       \cup {CompleteSet(request[s].scores_dict) : s \in SavesOn(v)}

\* C30: replacement of a vacante's stored scores is atomic for concurrent
\* requests: two concurrent saves that both return True leave the key set of
\* one of them, and a concurrent get_matching_scores returns only a complete
\* old or a complete new set.
C30_AtomicReplacement == C30_OneOfTheTwoKeySets /\ C30_CompleteSetsOnly

=============================================================================
